---------------------------- MODULE Spec2Model ----------------------------
(***************************************************************************)
(* Piedmont Springs availability service: the token service                *)
(* (token-service.ts: getAccessToken, obtainTokenViaPlaywright,            *)
(* clearTokenCache), the stand-alone token script (scripts/get-token.ts:   *)
(* getToken), the upstream gateway (api-client.ts: apiRequest), the        *)
(* catalog and availability functions of api-client.ts (parseDuration,     *)
(* getAllServices, getTargetServices, getAvailableDates, getTimeSlots,     *)
(* getAllAvailability) and the inbound endpoint (GET /api/availability).   *)
(*                                                                         *)
(* JavaScript runs one task at a time and switches tasks only at an await, *)
(* so every action below is the code that runs from one await to the next. *)
(* The clock counts whole hours: TOKEN_CACHE_MS, the environment token's   *)
(* local expiry and the upstream validity window are 3 h, 1 h and 4 h.     *)
(***************************************************************************)
EXTENDS Integers, Sequences, FiniteSets, TLC

(* ------------------------------ bounds -------------------------------- *)

\* number of concurrently running async tasks (callers)
NumTasks == 2
\* the clock stops advancing at this hour
MaxTime == 5
\* distinct access_token values the booking site may put on its requests
\* within one hour
NumSiteTokens == 2
\* Clock ticks that may pass while a call is in flight.  Every await of a
\* call (import, launch, the 15 s navigation, the 10 x 500 ms polls, close,
\* fetch) takes far less than one hour, the unit of the clock.
InFlightMaxTicks == 0
\* duration strings "<N> hr <M> min" are drawn with N up to MaxHours and M
\* up to MaxMinutes
MaxHours == 3
MaxMinutes == 12
\* items of one menu group in a menu response
MaxItems == 2
\* the calendar days an availability response may name are 1..MaxDay
MaxDay == 2
\* timestamps in one availability list of an available-dates response
MaxDates == 2
\* slots in one availability list of a slots response
MaxSlots == 1
\* largest thousands digit of a display price
MaxThousands == 2

(* -------------------------- program constants ------------------------- *)

\* constants.ts: TOKEN_CACHE_MS = 3 * 60 * 60 * 1000, in hours
TOKEN_CACHE_MS == 3
\* token-service.ts: Date.now() + 60 * 60 * 1000, in hours
ENV_CACHE_MS == 1
\* "tokens last ~4 hours": the assumed upstream validity window, in hours
UPSTREAM_VALID_MS == 4
\* for (let i = 0; i < 10; i++) in obtainTokenViaPlaywright
POLL_ATTEMPTS == 10
\* for (let i = 0; i < 20; i++) in scripts/get-token.ts
SCRIPT_POLL_ATTEMPTS == 20
SUBSCRIPTION_KEY == "b8c686e771ac4e4a8173d8177e4e1c8c"
\* constants.ts: DEFAULT_DAYS
DEFAULT_DAYS == 30
\* route.ts: Math.min(Math.max(parseInt(daysParam, 10), 1), 60)
MIN_DAYS == 1
MAX_DAYS == 60
\* hours in a day
DAY_HOURS == 24

Tasks == 1..NumTasks

(* ------------------------------ values -------------------------------- *)

\* A token value. src: "web" (issued by the booking site and seen on one of
\* its requests), "env" (process.env.BOOKER_TOKEN), "empty" (the empty
\* string), "null" (null / undefined).  iss is the hour the token was
\* issued at; the program never reads it.
Tok(src, iss, n) == [src |-> src, iss |-> iss, n |-> n]
NullTok == Tok("null", 0, 0)
EmptyTok == Tok("empty", 0, 0)
EnvTok == Tok("env", 0, 0)
WebTok(t, n) == Tok("web", t, n)

\* JavaScript truthiness of a string | null | undefined
Truthy(tok) == tok.src \notin {"null", "empty"}

\* number | null: << >> is null, <<t>> the number t
NullNum == << >>
Num(t) == <<t>>
\* JavaScript truthiness of a number | null
TruthyNum(x) == x # NullNum /\ x[1] # 0

\* errors a call can end with
Err(msg) == [msg |-> msg, status |-> 0, text |-> ""]
ERR_FAILED_TO_OBTAIN ==
    Err("Failed to obtain access token. Set BOOKER_TOKEN env var or ensure Playwright is available.")
ERR_LAUNCH == Err("chromium.launch rejected")
ERR_NEW_CONTEXT == Err("browser.newContext rejected")
ERR_NEW_PAGE == Err("context.newPage rejected")
ERR_GOTO == Err("page.goto rejected")
NoErr == Err("")

\* console output
LOG_USING_ENV == "Using BOOKER_TOKEN from environment"
LOG_NOT_AVAILABLE == "Playwright not available. Set BOOKER_TOKEN environment variable."
LOG_NAV_WARNING == "Navigation warning:"
LOG_CAPTURED == "Token captured"

\* the outcome of a call: pending, a returned token, or a thrown error
Pending == [status |-> "pending", token |-> NullTok, err |-> NoErr]
Returned(tok) == [status |-> "ok", token |-> tok, err |-> NoErr]
Thrown(e) == [status |-> "error", token |-> NullTok, err |-> e]

\* an outbound request: query parameters in order, and the headers
NoReq == [query |-> << >>, authorization |-> [scheme |-> "", tok |-> NullTok],
          subscriptionKey |-> ""]

VARIABLES
    now,            \* Date.now(), in hours
    cachedToken,    \* token-service.ts: let cachedToken
    tokenExpiry,    \* token-service.ts: let tokenExpiry
    envToken,       \* process.env.BOOKER_TOKEN
    clearedSince,   \* history: clearTokenCache ran and nothing was cached since
    task,           \* per task: the call it runs and that call's locals
    run,            \* one request to GET /api/availability and its locals
    fn              \* one call of a pure function: its argument and result

vars == <<now, cachedToken, tokenExpiry, envToken, clearedSince, task, run, fn>>

\* a task that runs nothing
IdleTask ==
    [kind |-> "none", pc |-> "idle", path |-> "none", acquisitions |-> 0,
     accessToken |-> NullTok, i |-> 0, browser |-> "none", observing |-> FALSE,
     pending |-> NoErr, got |-> Pending, req |-> NoReq, out |-> Pending,
     logs |-> {}, ticks |-> 0, cleared |-> FALSE]

\* a JavaScript number: NaN, or the integer n
NaN == [nan |-> TRUE, n |-> 0]
Number(n) == [nan |-> FALSE, n |-> n]

\* the body of a response of the inbound endpoint before there is one
NoResponse ==
    [status |-> 0, error |-> NoErr, availability |-> << >>, services |-> << >>]

\* no request to the inbound endpoint is running
IdleRun ==
    [pc |-> "idle", tz |-> 0, services |-> << >>, s |-> 0,
     availableDates |-> << >>, d |-> 0, result |-> << >>, calls |-> << >>,
     response |-> NoResponse]

\* no pure function has been called
NoFn == [name |-> "none", input |-> << >>, output |-> << >>, done |-> FALSE]

Init ==
    /\ now = 0
    /\ cachedToken = NullTok
    /\ tokenExpiry = NullNum
    /\ envToken \in {NullTok, EmptyTok, EnvTok}
    /\ clearedSince = FALSE
    /\ task = [p \in Tasks |-> IdleTask]
    /\ run = IdleRun
    /\ fn = NoFn

(* --------------------------- token service ---------------------------- *)

\* the expiry test turned round: Date.now() > tokenExpiry
CacheValidReversed ==
    Truthy(cachedToken) /\ TruthyNum(tokenExpiry) /\ now > tokenExpiry[1]

\* if (cachedToken && tokenExpiry && Date.now() < tokenExpiry)
CacheValid ==
    Truthy(cachedToken) /\ TruthyNum(tokenExpiry) /\ now < tokenExpiry[1]

\* tokenExpiry = Date.now() + 60 * 60 * 1000
EnvExpiry(t) == t + ENV_CACHE_MS

\* a browser token cached for the whole upstream window
WebExpiryWholeWindow(t) == t + UPSTREAM_VALID_MS

\* a browser token cached for twice TOKEN_CACHE_MS
WebExpiryDoubled(t) == t + 2 * TOKEN_CACHE_MS

\* tokenExpiry = Date.now() + TOKEN_CACHE_MS
WebExpiry(t) == t + TOKEN_CACHE_MS

\* the chain without the environment variable (the service's first version)
ResolutionWithoutEnv == IF CacheValid THEN "hit" ELSE "browser"

\* The priority chain of getAccessToken: the cache, then the environment
\* variable, then the browser.
Resolution ==
    IF CacheValid THEN "hit"
    ELSE IF Truthy(envToken) THEN "env"
    ELSE "browser"

(* ------------------------------ gateway ------------------------------- *)

\* A query value: String(value) of a caller's parameter, or a token
Text(s) == [text |-> s, tok |-> NullTok]
TokStr(tok) == [text |-> "", tok |-> tok]

\* The parameter lists callers pass to apiRequest, in Object.entries order.
\* apiRequest reads them only when it builds the URL, so they are drawn there.
ParamChoices ==
    { << <<"serviceId", Text("501")>> >>,
      << <<"access_token", Text("callers-own")>>, <<"serviceId", Text("501")>> >> }

RECURSIVE DropKey(_, _)
DropKey(q, k) ==
    IF q = << >> THEN << >>
    ELSE IF Head(q)[1] = k THEN DropKey(Tail(q), k)
    ELSE <<Head(q)>> \o DropKey(Tail(q), k)

RECURSIVE SetFirst(_, _, _)
SetFirst(q, k, v) ==
    IF q = << >> THEN << >>
    ELSE IF Head(q)[1] = k THEN <<<<k, v>>>> \o DropKey(Tail(q), k)
    ELSE <<Head(q)>> \o SetFirst(Tail(q), k, v)

\* URLSearchParams.append in place of set
SearchParamsAppend(q, k, v) == Append(q, <<k, v>>)

\* URLSearchParams.set: the first pair named k gets the value v and every
\* other pair named k is removed; with no pair named k, one is appended
SearchParamsSet(q, k, v) ==
    IF \E j \in 1..Len(q) : q[j][1] = k
    THEN SetFirst(q, k, v)
    ELSE Append(q, <<k, v>>)

RECURSIVE SetAll(_, _)
\* for (const [key, value] of Object.entries(params)) url.searchParams.set(..)
SetAll(q, params) ==
    IF params = << >> THEN q
    ELSE SetAll(SearchParamsSet(q, Head(params)[1], Head(params)[2]), Tail(params))

\* the URL's query after url.searchParams.set('access_token', token)
BuildQuery(params, tok) ==
    SearchParamsSet(SetAll(<< >>, params), "access_token", TokStr(tok))

\* Authorization: `Bearer ${token}`
BearerHeader(tok) == [scheme |-> "Bearer", tok |-> tok]

\* the request apiRequest hands to fetch
BuildRequest(params, tok) ==
    [query |-> BuildQuery(params, tok),
     authorization |-> BearerHeader(tok),
     subscriptionKey |-> SUBSCRIPTION_KEY]

\* What apiRequest does once its getAccessToken has settled with outcome o,
\* in the same turn: it builds the URL and the headers and calls fetch; a
\* rejection of getAccessToken rejects apiRequest.
Settle(t, o, params) ==
    IF o.status = "ok"
    THEN [t EXCEPT !.pc = "fetch", !.got = o, !.ticks = 0, !.cleared = FALSE,
                   !.req = BuildRequest(params, o.token)]
    ELSE [t EXCEPT !.pc = "done", !.got = o, !.ticks = 0, !.cleared = FALSE, !.out = o]

(* ----------------------- the acquisition engine ----------------------- *)

\* the engine of the stand-alone script polls 20 times, the service's 10
PollBudget(t) == IF t.kind = "script" THEN SCRIPT_POLL_ATTEMPTS ELSE POLL_ATTEMPTS

\* token-service.ts wraps goto and the polling loop in try/catch;
\* scripts/get-token.ts does not
CatchesNavigation(t) == t.kind # "script"

\* the task is inside obtainTokenViaPlaywright / getToken
InEngine(t) ==
    t.pc \in {"import", "launch", "newContext", "newPage", "goto", "wait", "close"}

\* The request URLs the page may issue: to api.booker.com or elsewhere, with
\* no access_token parameter ("null"), with an empty one ("empty"), or with
\* a token the site issued this hour.
RequestUrls ==
    { [booker |-> b, at |-> a] :
        b \in BOOLEAN,
        a \in {NullTok, EmptyTok} \cup { WebTok(now, n) : n \in 1..NumSiteTokens } }

\* url.includes('access_token=') && url.includes('api.booker.com'), then
\* url.match(/access_token=([^&]+)/)?.[1]: the token, or undefined
MatchToken(url) ==
    IF url.at.src # "null" /\ url.booker /\ url.at.src # "empty"
    THEN url.at
    ELSE NullTok

\* a handler that keeps the token of the latest request
CaptureLatest(accessToken, token) ==
    IF Truthy(token) THEN token ELSE accessToken

\* if (token && !accessToken) accessToken = token
Capture(accessToken, token) ==
    IF Truthy(token) /\ ~Truthy(accessToken) THEN token ELSE accessToken

\* getAccessToken entering the engine a second time after a null result
FinishRetrying(p, t, r) ==
    IF t.kind = "script"
    THEN /\ task' = [task EXCEPT ![p] = [t EXCEPT !.pc = "done", !.out = r, !.ticks = 0]]
         /\ UNCHANGED <<cachedToken, tokenExpiry, clearedSince>>
    ELSE IF r.status = "error"
    THEN /\ task' = [task EXCEPT ![p] = Settle(t, r, << >>)]
         /\ UNCHANGED <<cachedToken, tokenExpiry, clearedSince>>
    ELSE IF ~Truthy(r.token) /\ t.acquisitions < 2
    THEN /\ task' = [task EXCEPT ![p] =
                       [IdleTask EXCEPT !.kind = t.kind, !.path = t.path, !.pc = "import",
                                        !.acquisitions = t.acquisitions + 1]]
         /\ UNCHANGED <<cachedToken, tokenExpiry, clearedSince>>
    ELSE IF ~Truthy(r.token)
    THEN /\ task' = [task EXCEPT ![p] = Settle(t, Thrown(ERR_FAILED_TO_OBTAIN), << >>)]
         /\ UNCHANGED <<cachedToken, tokenExpiry, clearedSince>>
    ELSE /\ cachedToken' = r.token
         /\ tokenExpiry' = Num(WebExpiry(now))
         /\ clearedSince' = FALSE
         /\ \E params \in ParamChoices :
              task' = [task EXCEPT ![p] = Settle(t, Returned(r.token), params)]

\* getAccessToken dropping the cached entry when the engine brings no token
FinishClearingOnFailure(p, t, r) ==
    IF t.kind = "script"
    THEN /\ task' = [task EXCEPT ![p] = [t EXCEPT !.pc = "done", !.out = r, !.ticks = 0]]
         /\ UNCHANGED <<cachedToken, tokenExpiry, clearedSince>>
    ELSE IF r.status = "error"
    THEN /\ task' = [task EXCEPT ![p] = Settle(t, r, << >>)]
         /\ UNCHANGED <<cachedToken, tokenExpiry, clearedSince>>
    ELSE IF ~Truthy(r.token)
    THEN /\ task' = [task EXCEPT ![p] = Settle(t, Thrown(ERR_FAILED_TO_OBTAIN), << >>)]
         /\ cachedToken' = NullTok
         /\ tokenExpiry' = NullNum
         /\ UNCHANGED clearedSince
    ELSE /\ cachedToken' = r.token
         /\ tokenExpiry' = Num(WebExpiry(now))
         /\ clearedSince' = FALSE
         /\ \E params \in ParamChoices :
              task' = [task EXCEPT ![p] = Settle(t, Returned(r.token), params)]

\* What getAccessToken does with the engine's result r, in the turn in which
\* obtainTokenViaPlaywright settles; for the script, main() has the result
\* of getToken.  Sets task'[p] and the cache.
Finish(p, t, r) ==
    IF t.kind = "script"
    THEN /\ task' = [task EXCEPT ![p] = [t EXCEPT !.pc = "done", !.out = r, !.ticks = 0]]
         /\ UNCHANGED <<cachedToken, tokenExpiry, clearedSince>>
    ELSE IF r.status = "error"
    THEN \* the rejection of obtainTokenViaPlaywright rejects getAccessToken
         /\ task' = [task EXCEPT ![p] = Settle(t, r, << >>)]
         /\ UNCHANGED <<cachedToken, tokenExpiry, clearedSince>>
    ELSE IF ~Truthy(r.token)
    THEN \* if (!token) throw new Error('Failed to obtain access token. ...')
         /\ task' = [task EXCEPT ![p] = Settle(t, Thrown(ERR_FAILED_TO_OBTAIN), << >>)]
         /\ UNCHANGED <<cachedToken, tokenExpiry, clearedSince>>
    ELSE /\ cachedToken' = r.token
         /\ tokenExpiry' = Num(WebExpiry(now))
         /\ clearedSince' = FALSE
         /\ \E params \in ParamChoices :
              task' = [task EXCEPT ![p] = Settle(t, Returned(r.token), params)]

\* getAccessToken joining the acquisition another caller has in flight
ApiRequestDeduplicated(p) ==
    LET t == [IdleTask EXCEPT !.kind = "api", !.path = Resolution] IN
    /\ task[p].pc = "idle"
    /\ CASE Resolution = "hit" ->
              /\ \E params \in ParamChoices :
                   task' = [task EXCEPT ![p] = Settle(t, Returned(cachedToken), params)]
              /\ UNCHANGED <<cachedToken, tokenExpiry, clearedSince>>
         [] Resolution = "env" ->
              /\ cachedToken' = envToken
              /\ tokenExpiry' = Num(EnvExpiry(now))
              /\ clearedSince' = FALSE
              /\ \E params \in ParamChoices :
                   task' = [task EXCEPT ![p] =
                              Settle([t EXCEPT !.logs = {LOG_USING_ENV}],
                                     Returned(envToken), params)]
         [] OTHER ->
              /\ task' = [task EXCEPT ![p] =
                            IF \E q \in Tasks : InEngine(task[q])
                            THEN [t EXCEPT !.pc = "joined"]
                            ELSE [t EXCEPT !.pc = "import", !.acquisitions = 1]]
              /\ UNCHANGED <<cachedToken, tokenExpiry, clearedSince>>
    /\ UNCHANGED <<now, envToken, run, fn>>

\* apiRequest, up to its first await that does not settle at once: it calls
\* getAccessToken, which answers from the cache or the environment variable,
\* or starts obtainTokenViaPlaywright, which runs up to
\* await import('playwright').
ApiRequest(p) ==
    LET t == [IdleTask EXCEPT !.kind = "api", !.path = Resolution] IN
    /\ task[p].pc = "idle"
    /\ CASE Resolution = "hit" ->
              /\ \E params \in ParamChoices :
                   task' = [task EXCEPT ![p] = Settle(t, Returned(cachedToken), params)]
              /\ UNCHANGED <<cachedToken, tokenExpiry, clearedSince>>
         [] Resolution = "env" ->
              /\ cachedToken' = envToken
              /\ tokenExpiry' = Num(EnvExpiry(now))
              /\ clearedSince' = FALSE
              /\ \E params \in ParamChoices :
                   task' = [task EXCEPT ![p] =
                              Settle([t EXCEPT !.logs = {LOG_USING_ENV}],
                                     Returned(envToken), params)]
         [] OTHER ->
              /\ task' = [task EXCEPT ![p] =
                            [t EXCEPT !.pc = "import", !.acquisitions = 1]]
              /\ UNCHANGED <<cachedToken, tokenExpiry, clearedSince>>
    /\ UNCHANGED <<now, envToken, run, fn>>

\* scripts/get-token.ts: main() calls getToken(), which runs up to
\* await chromium.launch
GetToken(p) ==
    /\ task[p].pc = "idle"
    /\ task' = [task EXCEPT ![p] =
                  [IdleTask EXCEPT !.kind = "script", !.pc = "launch",
                                   !.acquisitions = 1]]
    /\ UNCHANGED <<now, cachedToken, tokenExpiry, envToken, clearedSince, run, fn>>

\* await import('playwright') settles.  When it rejects the engine logs an
\* error and returns null; otherwise it goes on to await chromium.launch.
ImportPlaywright(p) ==
    LET t == task[p] IN
    /\ t.pc = "import"
    /\ \/ Finish(p, [t EXCEPT !.logs = @ \cup {LOG_NOT_AVAILABLE}], Returned(NullTok))
       \/ /\ task' = [task EXCEPT ![p] = [t EXCEPT !.pc = "launch"]]
          /\ UNCHANGED <<cachedToken, tokenExpiry, clearedSince>>
    /\ UNCHANGED <<now, envToken, run, fn>>

\* await chromium.launch settles.  It is outside the try: a rejection leaves
\* the function at once, with no browser to close.
Launch(p) ==
    LET t == task[p] IN
    /\ t.pc = "launch"
    /\ \/ Finish(p, t, Thrown(ERR_LAUNCH))
       \/ /\ task' = [task EXCEPT ![p] = [t EXCEPT !.pc = "newContext", !.browser = "open"]]
          /\ UNCHANGED <<cachedToken, tokenExpiry, clearedSince>>
    /\ UNCHANGED <<now, envToken, run, fn>>

\* an exception leaving the function without the finally block
ToFinallySkipped(t, e) == [t EXCEPT !.pc = "done", !.out = Thrown(e), !.i = 0]

\* An exception inside the outer try: the finally block awaits
\* browser.close() and the exception goes on afterwards.
ToFinally(t, e) == [t EXCEPT !.pc = "close", !.pending = e, !.i = 0]

\* await browser.newContext settles
NewContext(p) ==
    LET t == task[p] IN
    /\ t.pc = "newContext"
    /\ \/ task' = [task EXCEPT ![p] = ToFinally(t, ERR_NEW_CONTEXT)]
       \/ task' = [task EXCEPT ![p] = [t EXCEPT !.pc = "newPage"]]
    /\ UNCHANGED <<now, cachedToken, tokenExpiry, envToken, clearedSince, run, fn>>

\* await context.newPage settles; then page.on('request', ...) installs the
\* handler and page.goto starts
NewPage(p) ==
    LET t == task[p] IN
    /\ t.pc = "newPage"
    /\ \/ task' = [task EXCEPT ![p] = ToFinally(t, ERR_NEW_PAGE)]
       \/ task' = [task EXCEPT ![p] = [t EXCEPT !.pc = "goto", !.observing = TRUE]]
    /\ UNCHANGED <<now, cachedToken, tokenExpiry, envToken, clearedSince, run, fn>>

\* the 'request' handler, for one request of the page that changes
\* accessToken (any other request leaves the state as it is)
OnRequest(p) ==
    LET t == task[p] IN
    /\ t.observing /\ t.browser = "open"
    /\ \E url \in RequestUrls :
         LET a == Capture(t.accessToken, MatchToken(url)) IN
         /\ a # t.accessToken
         /\ task' = [task EXCEPT ![p] =
                       [t EXCEPT !.accessToken = a, !.logs = @ \cup {LOG_CAPTURED}]]
    /\ UNCHANGED <<now, cachedToken, tokenExpiry, envToken, clearedSince, run, fn>>

\* a catch around page.goto alone: the warning, then the polling loop
NavigationFailedThenPoll(t) ==
    [t EXCEPT !.pc = "wait", !.i = 0, !.logs = @ \cup {LOG_NAV_WARNING}]

\* What follows a rejected page.goto: token-service.ts catches it, logs the
\* warning and falls through to the finally block, the polling loop being
\* inside the same try; scripts/get-token.ts has no catch.
NavigationFailed(t) ==
    IF CatchesNavigation(t)
    THEN [t EXCEPT !.pc = "close", !.logs = @ \cup {LOG_NAV_WARNING}]
    ELSE ToFinally(t, ERR_GOTO)

\* await page.goto settles; on success the loop starts: i = 0 and the first
\* page.waitForTimeout(500)
Goto(p) ==
    LET t == task[p] IN
    /\ t.pc = "goto"
    /\ \/ task' = [task EXCEPT ![p] = NavigationFailed(t)]
       \/ task' = [task EXCEPT ![p] = [t EXCEPT !.pc = "wait", !.i = 0]]
    /\ UNCHANGED <<now, cachedToken, tokenExpiry, envToken, clearedSince, run, fn>>

\* a loop that polls until a token is there
AfterPollUntilToken(t) ==
    IF Truthy(t.accessToken) THEN [t EXCEPT !.pc = "close", !.i = 0] ELSE t

\* After one page.waitForTimeout(500): if (accessToken) break; else i++ and
\* the loop test i < budget.  i lives in the loop only.
AfterPoll(t) ==
    IF Truthy(t.accessToken) THEN [t EXCEPT !.pc = "close", !.i = 0]
    ELSE IF t.i + 1 < PollBudget(t) THEN [t EXCEPT !.i = @ + 1]
    ELSE [t EXCEPT !.pc = "close", !.i = 0]

\* await page.waitForTimeout(500) settles
WaitForTimeout(p) ==
    LET t == task[p] IN
    /\ t.pc = "wait"
    /\ task' = [task EXCEPT ![p] = AfterPoll(t)]
    /\ UNCHANGED <<now, cachedToken, tokenExpiry, envToken, clearedSince, run, fn>>

\* What obtainTokenViaPlaywright / getToken settles with after the finally
\* block: the exception in flight, else return accessToken.
EngineResult(t) ==
    IF t.pending # NoErr THEN Thrown(t.pending) ELSE Returned(t.accessToken)

\* await browser.close() settles, in the finally block
BrowserClose(p) ==
    LET t == task[p] IN
    /\ t.pc = "close"
    /\ Finish(p, [t EXCEPT !.browser = "closed", !.observing = FALSE], EngineResult(t))
    /\ UNCHANGED <<now, envToken, run, fn>>

(* ------------------------- the rest of a call ------------------------- *)

\* the HTTP statuses the upstream answers with
Statuses == {200, 401, 500}

StatusText(s) ==
    CASE s = 200 -> "OK" [] s = 401 -> "Unauthorized" [] OTHER -> "Internal Server Error"

\* `API request failed: ${response.status} ${response.statusText}`
ApiError(s) == [msg |-> "API request failed:", status |-> s, text |-> StatusText(s)]

\* response.ok
ResponseOk(s) == s >= 200 /\ s <= 299

\* return response.json()
Json == [status |-> "json", token |-> NullTok, err |-> NoErr]

\* apiRequest invalidating the token cache when the upstream rejects
FetchResponseClearing(p) ==
    LET t == task[p] IN
    /\ t.pc = "fetch"
    /\ \E s \in Statuses :
         /\ task' = [task EXCEPT ![p] =
                       [IdleTask EXCEPT !.kind = t.kind, !.pc = "done",
                                        !.out = IF ResponseOk(s) THEN Json
                                                ELSE Thrown(ApiError(s))]]
         /\ cachedToken' = IF ResponseOk(s) THEN cachedToken ELSE NullTok
         /\ tokenExpiry' = IF ResponseOk(s) THEN tokenExpiry ELSE NullNum
    /\ UNCHANGED <<now, envToken, clearedSince, run, fn>>

\* await fetch settles: if (!response.ok) throw ...; return response.json().
\* apiRequest is over: its locals are gone and its outcome is left.
FetchResponse(p) ==
    LET t == task[p] IN
    /\ t.pc = "fetch"
    /\ \E s \in Statuses :
         task' = [task EXCEPT ![p] =
                    [IdleTask EXCEPT !.kind = t.kind, !.pc = "done",
                                     !.out = IF ResponseOk(s) THEN Json
                                             ELSE Thrown(ApiError(s))]]
    /\ UNCHANGED <<now, cachedToken, tokenExpiry, envToken, clearedSince, run, fn>>

\* the caller takes the result; the task is free for the next call
Return(p) ==
    /\ task[p].pc = "done"
    /\ task' = [task EXCEPT ![p] = IdleTask]
    /\ UNCHANGED <<now, cachedToken, tokenExpiry, envToken, clearedSince, run, fn>>

\* clearTokenCache forgetting the token and keeping the expiry
ClearTokenOnly ==
    /\ cachedToken' = NullTok
    /\ UNCHANGED tokenExpiry
    /\ clearedSince' = TRUE
    /\ UNCHANGED <<now, envToken, task, run, fn>>

\* a clear that resets the expiry and keeps the token
ClearExpiryOnly ==
    /\ UNCHANGED cachedToken
    /\ tokenExpiry' = NullNum
    /\ clearedSince' = TRUE
    /\ UNCHANGED <<now, envToken, task, run, fn>>

\* clearTokenCache().  It knows nothing of the calls in flight; the model
\* notes, as history, which acquisitions of the service it overtook.
ClearTokenCache ==
    /\ cachedToken' = NullTok
    /\ tokenExpiry' = NullNum
    /\ clearedSince' = TRUE
    /\ task' = [p \in Tasks |->
                  IF task[p].kind = "api" /\ InEngine(task[p])
                  THEN [task[p] EXCEPT !.cleared = TRUE] ELSE task[p]]
    /\ UNCHANGED <<now, envToken, run, fn>>

\* One hour passes.  A call in flight sees at most InFlightMaxTicks.
Tick ==
    /\ now < MaxTime
    /\ \A p \in Tasks : task[p].pc # "idle" => task[p].ticks < InFlightMaxTicks
    /\ now' = now + 1
    /\ task' = [p \in Tasks |->
                  IF task[p].pc # "idle" THEN [task[p] EXCEPT !.ticks = @ + 1] ELSE task[p]]
    /\ UNCHANGED <<cachedToken, tokenExpiry, envToken, clearedSince, run, fn>>

Next ==
    \/ \E p \in Tasks : ApiRequest(p)
    \/ \E p \in Tasks : ImportPlaywright(p)
    \/ \E p \in Tasks : Launch(p)
    \/ \E p \in Tasks : NewContext(p)
    \/ \E p \in Tasks : NewPage(p)
    \/ \E p \in Tasks : OnRequest(p)
    \/ \E p \in Tasks : Goto(p)
    \/ \E p \in Tasks : WaitForTimeout(p)
    \/ \E p \in Tasks : BrowserClose(p)
    \/ \E p \in Tasks : FetchResponse(p)
    \/ \E p \in Tasks : Return(p)
    \/ ClearTokenCache
    \/ Tick

\* the token service and the gateway
Spec == Init /\ [][Next]_vars

ScriptNext ==
    \/ Next
    \/ \E p \in Tasks : GetToken(p)

\* the same, with the stand-alone script run beside them
ScriptSpec == Init /\ [][ScriptNext]_vars

\* one await of the engine settles for task p
EngineStep(p) ==
    \/ ImportPlaywright(p)
    \/ Launch(p)
    \/ NewContext(p)
    \/ NewPage(p)
    \/ Goto(p)
    \/ WaitForTimeout(p)
    \/ BrowserClose(p)

\* Every promise the engine awaits settles: the import and the Playwright
\* calls resolve or reject (goto within its timeout), the timer of
\* waitForTimeout fires.  Nothing is assumed about the requests of the page,
\* about new calls, clearTokenCache or the upstream's answers.
EngineFairness == \A p \in Tasks : WF_vars(EngineStep(p))

\* the calls and the sessions of the tasks within one hour of the clock
LiveNext ==
    \/ \E p \in Tasks : ApiRequest(p)
    \/ \E p \in Tasks : GetToken(p)
    \/ \E p \in Tasks : EngineStep(p)
    \/ \E p \in Tasks : OnRequest(p)
    \/ \E p \in Tasks : FetchResponse(p)
    \/ \E p \in Tasks : Return(p)
    \/ ClearTokenCache

\* the token service, the gateway and the script, the awaits of the engine
\* settling
LiveSpec == Init /\ [][LiveNext]_vars /\ EngineFairness

(* ------------------------------ strings ------------------------------- *)

\* A string is the sequence of its characters.
Digit == <<"0", "1", "2", "3", "4", "5", "6", "7", "8", "9">>
UpperCase ==
    <<"A", "B", "C", "D", "E", "F", "G", "H", "I", "J", "K", "L", "M",
      "N", "O", "P", "Q", "R", "S", "T", "U", "V", "W", "X", "Y", "Z">>
LowerCase ==
    <<"a", "b", "c", "d", "e", "f", "g", "h", "i", "j", "k", "l", "m",
      "n", "o", "p", "q", "r", "s", "t", "u", "v", "w", "x", "y", "z">>

\* \d
IsDigit(c) == \E k \in 1..10 : Digit[k] = c
DigitValue(c) == (CHOOSE k \in 1..10 : Digit[k] = c) - 1
\* \s, and the white space parseInt, parseFloat and trim skip
IsSpace(c) == c \in {" ", "\t", "\n"}

\* the number of characters from s[i] on that are digits (\d+, greedy)
RECURSIVE DigitRun(_, _)
DigitRun(s, i) ==
    IF i <= Len(s) /\ IsDigit(s[i]) THEN 1 + DigitRun(s, i + 1) ELSE 0

\* the number of characters from s[i] on that are white space (\s*, greedy)
RECURSIVE SpaceRun(_, _)
SpaceRun(s, i) ==
    IF i <= Len(s) /\ IsSpace(s[i]) THEN 1 + SpaceRun(s, i + 1) ELSE 0

\* the value of a string of decimal digits
RECURSIVE DigitsValue(_)
DigitsValue(ds) ==
    IF ds = << >> THEN 0
    ELSE 10 * DigitsValue(SubSeq(ds, 1, Len(ds) - 1)) + DigitValue(ds[Len(ds)])

\* s has w at position i
HasAt(s, i, w) == i + Len(w) - 1 <= Len(s) /\ SubSeq(s, i, i + Len(w) - 1) = w

\* String.prototype.includes
Includes(s, w) == \E i \in 1..(Len(s) + 1) : HasAt(s, i, w)

\* String.prototype.toLowerCase
ToLowerCase(s) ==
    [i \in 1..Len(s) |->
        IF \E k \in 1..26 : UpperCase[k] = s[i]
        THEN LowerCase[CHOOSE k \in 1..26 : UpperCase[k] = s[i]]
        ELSE s[i]]

\* String.prototype.trim
Trim(s) ==
    LET keep == { i \in 1..Len(s) : ~IsSpace(s[i]) } IN
    IF keep = {} THEN << >>
    ELSE SubSeq(s, CHOOSE i \in keep : \A j \in keep : i <= j,
                   CHOOSE i \in keep : \A j \in keep : i >= j)

\* String.prototype.replace(w, r) with a string pattern: the first
\* occurrence only
Replace(s, w, r) ==
    IF ~Includes(s, w) THEN s
    ELSE LET i == CHOOSE i \in 1..(Len(s) + 1) :
                      HasAt(s, i, w) /\ \A j \in 1..(i - 1) : ~HasAt(s, j, w)
         IN SubSeq(s, 1, i - 1) \o r \o SubSeq(s, i + Len(w), Len(s))

\* parseInt(s, 10): leading white space, a sign, then the longest run of
\* digits; NaN when there is no digit there
ParseInt(s) ==
    LET i == 1 + SpaceRun(s, 1)
        signed == i <= Len(s) /\ s[i] \in {"+", "-"}
        j == IF signed THEN i + 1 ELSE i
        n == DigitRun(s, j)
        v == DigitsValue(SubSeq(s, j, j + n - 1))
    IN IF n = 0 THEN NaN
       ELSE IF signed /\ s[i] = "-" THEN Number(0 - v) ELSE Number(v)

(* ------------------------- catalog: parseDuration --------------------- *)

\* s.match(re) for re = /(\d+)\s*<unit>/, at position i: digits, white
\* space, the unit.  Giving back digits or spaces cannot help the match,
\* the unit starting with a letter.
MatchesAt(s, i, unit) ==
    /\ DigitRun(s, i) > 0
    /\ HasAt(s, i + DigitRun(s, i) + SpaceRun(s, i + DigitRun(s, i)), unit)

\* match[1] of the leftmost match, or << >> when match is null
FirstGroup(s, unit) ==
    IF \E i \in 1..Len(s) : MatchesAt(s, i, unit)
    THEN LET i == CHOOSE i \in 1..Len(s) :
                      MatchesAt(s, i, unit) /\ \A j \in 1..(i - 1) : ~MatchesAt(s, j, unit)
         IN SubSeq(s, i, i + DigitRun(s, i) - 1)
    ELSE << >>

\* parseDuration reading the minutes where the hours are
ParseDurationHoursAsMinutes(durationStr) ==
    LET hrMatch == FirstGroup(durationStr, <<"h", "r">>)
        minMatch == FirstGroup(durationStr, <<"m", "i", "n">>)
    IN (IF hrMatch # << >> THEN ParseInt(hrMatch).n ELSE 0)
       + (IF minMatch # << >> THEN ParseInt(minMatch).n ELSE 0)

\* parseDuration: totalMinutes
ParseDuration(durationStr) ==
    LET hrMatch == FirstGroup(durationStr, <<"h", "r">>)
        minMatch == FirstGroup(durationStr, <<"m", "i", "n">>)
    IN (IF hrMatch # << >> THEN ParseInt(hrMatch).n * 60 ELSE 0)
       + (IF minMatch # << >> THEN ParseInt(minMatch).n ELSE 0)

(* ------------------------ catalog: getAllServices --------------------- *)

\* parseFloat(s), in whole cents: leading white space, a sign, digits, then
\* a point and digits; NaN when no number starts there.  The third and later
\* decimals are dropped.
ParseFloat(s) ==
    LET i == 1 + SpaceRun(s, 1)
        signed == i <= Len(s) /\ s[i] \in {"+", "-"}
        j == IF signed THEN i + 1 ELSE i
        n == DigitRun(s, j)
        point == j + n <= Len(s) /\ s[j + n] = "."
        f == IF point THEN DigitRun(s, j + n + 1) ELSE 0
        frac == SubSeq(s, j + n + 1, j + n + f) \o <<"0", "0">>
        cents == 100 * DigitsValue(SubSeq(s, j, j + n - 1))
                 + DigitsValue(SubSeq(frac, 1, 2))
    IN IF n = 0 /\ f = 0 THEN NaN
       ELSE IF signed /\ s[i] = "-" THEN Number(0 - cents) ELSE Number(cents)

\* x || fallback, for a string that may be missing (<< >>: undefined or '')
OrElse(x, fallback) == IF x = << >> THEN fallback ELSE x

PriceKeepingSeparator(priceStr) ==
    ParseFloat(Replace(priceStr, <<"$">>, << >>))

\* const price = parseFloat(priceStr.replace('$', '').replace(',', ''))
Price(priceStr) ==
    ParseFloat(Replace(Replace(priceStr, <<"$">>, << >>), <<",">>, << >>))

\* one entry of services.push({...})
ServiceOf(item, categoryName) ==
    [id |-> item.ServiceId,
     name |-> Trim(OrElse(item.Name, <<"U", "n", "k", "n", "o", "w", "n">>)),
     durationMinutes |-> ParseDuration(OrElse(item.DisplayDuration, <<"0", " ", "m", "i", "n">>)),
     price |-> Price(OrElse(item.DisplayPrice, <<"$", "0", ".", "0", "0">>)),
     category |-> categoryName]

\* for (const item of menuGroup.MenuGroupItems || []): if (serviceId) push.
\* ServiceId 0 stands for every falsy value (0, null, undefined).
RECURSIVE ItemServices(_, _)
ItemServices(items, categoryName) ==
    IF items = << >> THEN << >>
    ELSE (IF Head(items).ServiceId # 0
          THEN <<ServiceOf(Head(items), categoryName)>> ELSE << >>)
         \o ItemServices(Tail(items), categoryName)

\* for (const menuGroup of section.MenuGroups || [])
RECURSIVE GroupServices(_)
GroupServices(groups) ==
    IF groups = << >> THEN << >>
    ELSE ItemServices(Head(groups).MenuGroupItems, OrElse(Head(groups).Name, <<"U", "n", "k", "n", "o", "w", "n">>))
         \o GroupServices(Tail(groups))

\* getAllServices, from the menu response on: for (const section of
\* data.Data || []) ...; return services
RECURSIVE GetAllServices(_)
GetAllServices(sections) ==
    IF sections = << >> THEN << >>
    ELSE GroupServices(Head(sections).MenuGroups) \o GetAllServices(Tail(sections))

\* constants.ts: TARGET_SERVICE_KEYWORDS
TARGET_SERVICE_KEYWORDS == <<<<"s", "a", "u", "n", "a">>, <<"s", "t", "e", "a", "m">>, <<"h", "o", "t", " ", "t", "u", "b">>, <<"c", "o", "m", "b", "i", "n", "a", "t", "i", "o", "n">>>>

\* TARGET_SERVICE_KEYWORDS.some((kw) => s.name.toLowerCase().includes(kw))
IsTarget(s) ==
    \E k \in 1..Len(TARGET_SERVICE_KEYWORDS) :
        Includes(ToLowerCase(s.name), TARGET_SERVICE_KEYWORDS[k])

\* the filter without toLowerCase
GetTargetServicesCaseSensitive(allServices) ==
    LET Test(s) == \E k \in 1..Len(TARGET_SERVICE_KEYWORDS) :
                       Includes(s.name, TARGET_SERVICE_KEYWORDS[k])
    IN SelectSeq(allServices, Test)

\* getTargetServices, from the result of getAllServices on
GetTargetServices(allServices) == SelectSeq(allServices, IsTarget)

(* --------------------- arguments of the pure functions ---------------- *)

\* String(n) of a non-negative integer
RECURSIVE Decimal(_)
Decimal(n) ==
    IF n < 10 THEN <<Digit[n + 1]>> ELSE Decimal(n \div 10) \o <<Digit[(n % 10) + 1]>>

\* the three forms of item.DisplayDuration: '2 hr', '30 min', '1 hr 10 min'
HrForm(n) == Decimal(n) \o <<" ", "h", "r">>
MinForm(m) == Decimal(m) \o <<" ", "m", "i", "n">>
HrMinForm(n, m) == Decimal(n) \o <<" ", "h", "r", " ">> \o Decimal(m) \o <<" ", "m", "i", "n">>

\* n written with at least w digits
RECURSIVE Padded(_, _)
Padded(n, w) ==
    IF Len(Decimal(n)) >= w THEN Decimal(n) ELSE <<"0">> \o Padded(n, w - 1)

\* item.DisplayPrice of the form "$X,XXX.YY": x thousands, h units below a
\* thousand and c cents
PriceForm(x, h, c) ==
    <<"$">> \o Decimal(x) \o <<",">> \o Padded(h, 3) \o <<".">> \o Padded(c, 2)

BelowThousand == {0, 7, 50, 999}
CentValues == {0, 5, 50, 99}

PriceStrings ==
    { PriceForm(x, h, c) : x \in 1..MaxThousands, h \in BelowThousand, c \in CentValues }

\* duration strings with neither an hour nor a minute component
NoComponentStrings ==
    { << >>, <<"4", "5">>, <<"s", "o", "o", "n">>, <<"h", "r">>, <<"m", "i", "n">>, <<"2", " ", "h", "o", "u", "r", "s">>, <<"h", "r", " ", "5">>, <<"5", " ", "m", " ", "i", "n">> }

DurationStrings ==
    { HrForm(n) : n \in 0..MaxHours }
    \cup { MinForm(m) : m \in 0..MaxMinutes }
    \cup { HrMinForm(n, m) : n \in 0..MaxHours, m \in 0..MaxMinutes }
    \cup NoComponentStrings

\* items of the upstream menu: [ServiceId, Name, DisplayDuration,
\* DisplayPrice], a missing field being 0 or << >>
MenuItem(id, name, duration, price) ==
    [ServiceId |-> id, Name |-> name, DisplayDuration |-> duration,
     DisplayPrice |-> price]

MenuItems ==
    { MenuItem(501, <<"3", "0", " ", "M", "i", "n", " ", "S", "a", "u", "n", "a">>, <<"3", "0", " ", "m", "i", "n">>, <<"$", "2", "5", ".", "0", "0">>),
      MenuItem(502, <<"H", "o", "t", " ", "T", "u", "b">>, <<"1", " ", "h", "r">>, <<"$", "1", ",", "0", "5", "0", ".", "0", "0">>),
      MenuItem(501, <<"S", "T", "E", "A", "M", " ", "R", "o", "o", "m", " ">>, <<"1", " ", "h", "r", " ", "1", "0", " ", "m", "i", "n">>, <<"$", "3", "0">>),
      MenuItem(503, <<"M", "a", "s", "s", "a", "g", "e">>, <<"5", "0", " ", "m", "i", "n">>, <<"$", "9", "5", ".", "5", "0">>),
      MenuItem(504, << >>, << >>, << >>),
      MenuItem(0, <<"C", "o", "m", "b", "i", "n", "a", "t", "i", "o", "n", " ", "G", "i", "f", "t">>, <<"1", " ", "h", "r">>, <<"$", "6", "0", ".", "0", "0">>) }

\* the sequences over S of length at most n
RECURSIVE SeqsUpTo(_, _)
SeqsUpTo(S, n) ==
    IF n = 0 THEN { << >> }
    ELSE LET shorter == SeqsUpTo(S, n - 1) IN
         shorter \cup { Append(q, x) : q \in shorter, x \in S }

MenuGroup(name, items) == [Name |-> name, MenuGroupItems |-> items]
MenuSection(groups) == [MenuGroups |-> groups]

\* data.Data of the menu responses: no section, one section with one group,
\* and the same items listed under two groups or in two sections
MenuResponses ==
    { << >> }
    \cup { <<MenuSection(<<MenuGroup(<<"S", "p", "a">>, items)>>)>> :
             items \in SeqsUpTo(MenuItems, MaxItems) }
    \cup { <<MenuSection(<<MenuGroup(<<"S", "p", "a">>, <<x>>), MenuGroup(<< >>, <<y>>)>>)>> :
             x \in MenuItems, y \in MenuItems }
    \cup { <<MenuSection(<<MenuGroup(<<"S", "p", "a">>, <<x>>)>>), MenuSection(<< >>),
             MenuSection(<<MenuGroup(<<"D", "a", "y">>, <<x>>)>>)>> : x \in MenuItems }

(* ----------------------- availability responses ----------------------- *)

\* ISO timestamps of an available-dates response: a calendar day and the
\* hour after the 'T'
Timestamp(d, h) == [date |-> d, hour |-> h]
Timestamps == { Timestamp(d, h) : d \in 1..MaxDay, h \in {0, 8} }

\* dateStr.split('T')[0]
DatePart(dateStr) == dateStr.date

\* one upstream slot: the times and the staff listed for it
SlotData(start, end, employees) ==
    [startDateTime |-> start, endDateTime |-> end, employees |-> employees]
Employee(id, name) == [employeeId |-> id, employeeName |-> name]
UpstreamSlots ==
    { SlotData("09:00", "10:00", <<Employee(7, "Room 1"), Employee(8, "Room 2")>>),
      SlotData("", "", << >>) }

\* the location -> serviceCategories -> services nesting of both
\* availability endpoints
BookerService(id, availability) == [serviceId |-> id, availability |-> availability]
BookerCategory(services) == [services |-> services]
BookerLocation(categories) == [serviceCategories |-> categories]

\* a response body: an array of locations, or something that is no array
Body(locations) == [isArray |-> TRUE, locations |-> locations]
NotAnArray == [isArray |-> FALSE, locations |-> << >>]

\* The bodies an availability endpoint answers with for the service id and
\* the availability lists in lists: no array, an empty array, the list under
\* the service, under the service next to another service's list, and
\* split over two locations.
Bodies(id, lists) ==
    { NotAnArray, Body(<< >>) }
    \cup { Body(<<BookerLocation(<<BookerCategory(<<BookerService(id, a)>>)>>)>>) :
             a \in lists }
    \cup { Body(<<BookerLocation(<<BookerCategory(
                     <<BookerService(id + 1, b), BookerService(id, a)>>)>>)>>) :
             a \in lists, b \in lists }
    \cup { Body(<<BookerLocation(<<BookerCategory(<<BookerService(id, a)>>)>>),
                  BookerLocation(<< >>),
                  BookerLocation(<<BookerCategory(<<BookerService(id, b)>>)>>)>>) :
             a \in lists, b \in lists }

AvailableDatesBodies(id) == Bodies(id, SeqsUpTo(Timestamps, MaxDates))
AvailabilityBodies(id) == Bodies(id, SeqsUpTo(UpstreamSlots, MaxSlots))

\* bodies that list the service under two categories of one location
CategoryBodies(id, lists) ==
    { Body(<<BookerLocation(<<BookerCategory(<<BookerService(id, a)>>),
                              BookerCategory(<< >>),
                              BookerCategory(<<BookerService(id + 1, a),
                                               BookerService(id, b)>>)>>)>>) :
        a \in lists, b \in lists }

\* the service id the pure functions are called with
RequestedServiceId == 501

\* the responses getAvailableDates is applied to
AvailableDatesArguments ==
    AvailableDatesBodies(RequestedServiceId)
    \cup CategoryBodies(RequestedServiceId, SeqsUpTo(Timestamps, MaxDates))

\* the slots getTimeSlots is applied to: those above and one with a single
\* staff member
ArgumentSlots ==
    UpstreamSlots \cup { SlotData("11:00", "12:00", <<Employee(9, "Room 3")>>) }

\* the responses getTimeSlots is applied to
TimeSlotsArguments ==
    Bodies(RequestedServiceId, SeqsUpTo(ArgumentSlots, MaxSlots + 1))
    \cup CategoryBodies(RequestedServiceId, SeqsUpTo(ArgumentSlots, MaxSlots))

\* the availability lists of the services with the requested id, in the
\* order of the three nested loops, one after the other
RECURSIVE OfServices(_, _)
OfServices(services, serviceId) ==
    IF services = << >> THEN << >>
    ELSE (IF Head(services).serviceId = serviceId
          THEN Head(services).availability ELSE << >>)
         \o OfServices(Tail(services), serviceId)

RECURSIVE OfCategories(_, _)
OfCategories(categories, serviceId) ==
    IF categories = << >> THEN << >>
    ELSE OfServices(Head(categories).services, serviceId)
         \o OfCategories(Tail(categories), serviceId)

RECURSIVE OfLocations(_, _)
OfLocations(locations, serviceId) ==
    IF locations = << >> THEN << >>
    ELSE OfCategories(Head(locations).serviceCategories, serviceId)
         \o OfLocations(Tail(locations), serviceId)

\* if (Array.isArray(data)) for (const location of data) ...
Flatten(data, serviceId) ==
    IF data.isArray THEN OfLocations(data.locations, serviceId) ELSE << >>

\* every datePart pushed, seen before or not
RECURSIVE PushEvery(_, _)
PushEvery(dates, stamps) ==
    IF stamps = << >> THEN dates
    ELSE PushEvery(Append(dates, DatePart(Head(stamps))), Tail(stamps))

\* datePart of each timestamp in turn: if (!dates.includes(datePart)) push
RECURSIVE PushDistinct(_, _)
PushDistinct(dates, stamps) ==
    IF stamps = << >> THEN dates
    ELSE LET datePart == DatePart(Head(stamps)) IN
         PushDistinct(IF \E k \in 1..Len(dates) : dates[k] = datePart
                      THEN dates ELSE Append(dates, datePart),
                      Tail(stamps))

\* the dates in the order the response listed them
Unsorted(dates) == dates

\* Array.prototype.sort of YYYY-MM-DD strings: ascending by day
RECURSIVE Sort(_)
Sort(dates) ==
    IF dates = << >> THEN << >>
    ELSE LET k == CHOOSE k \in 1..Len(dates) : \A j \in 1..Len(dates) : dates[k] <= dates[j]
         IN <<dates[k]>> \o Sort(SubSeq(dates, 1, k - 1) \o SubSeq(dates, k + 1, Len(dates)))

\* getAvailableDates, from the response on
GetAvailableDates(data, serviceId) == Sort(PushDistinct(<< >>, Flatten(data, serviceId)))

\* a slot that keeps the staff member listed last
TimeSlotOfLastEmployee(slotData) ==
    [startTime |-> slotData.startDateTime,
     endTime |-> slotData.endDateTime,
     employeeId |-> IF slotData.employees # << >>
                    THEN slotData.employees[Len(slotData.employees)].employeeId ELSE 0,
     employeeName |-> IF slotData.employees # << >>
                      THEN slotData.employees[Len(slotData.employees)].employeeName ELSE ""]

\* the employee id 0 and the name "" stand for null
TimeSlotOf(slotData) ==
    [startTime |-> slotData.startDateTime,
     endTime |-> slotData.endDateTime,
     employeeId |-> IF slotData.employees # << >>
                    THEN slotData.employees[1].employeeId ELSE 0,
     employeeName |-> IF slotData.employees # << >>
                      THEN slotData.employees[1].employeeName ELSE ""]

\* getTimeSlots, from the response on
GetTimeSlots(data, serviceId) ==
    LET upstream == Flatten(data, serviceId) IN
    [k \in 1..Len(upstream) |-> TimeSlotOf(upstream[k])]

\* new Date(dateStr + 'T00:00:00'): midnight of the day in the time zone of
\* the process, as hours since the UTC midnight that starts day 0.  tz is
\* the zone's offset from UTC in hours.
NewDate(dateStr, tz) == DAY_HOURS * dateStr - tz

\* formatDate: date.toISOString().split('T')[0], the day in UTC
FormatDate(date) == date \div DAY_HOURS

(* ----------------- the inbound endpoint: GET /api/availability -------- *)

\* searchParams.get('days'): null when the parameter is absent
Absent == [present |-> FALSE, text |-> << >>]
Param(text) == [present |-> TRUE, text |-> text]

\* the values of the days parameter a client may send
DaysParams ==
    { Absent, Param(<< >>), Param(<<"0">>), Param(<<"-", "5">>), Param(<<"1">>), Param(<<"7">>),
      Param(<<"6", "0">>), Param(<<"6", "1">>), Param(<<"9", "9", "9">>), Param(<<"a", "b", "c">>), Param(<<"7", "d", "a", "y", "s">>),
      Param(<<" ", "7">>), Param(<<"3", ".", "9">>) }

\* Math.max and Math.min: NaN when an argument is NaN
MathMax(a, b) ==
    IF a.nan \/ b.nan THEN NaN ELSE IF a.n >= b.n THEN a ELSE b
MathMin(a, b) ==
    IF a.nan \/ b.nan THEN NaN ELSE IF a.n <= b.n THEN a ELSE b

\* daysParam ? Math.min(Math.max(parseInt(daysParam, 10), 1), 60) : DEFAULT_DAYS
Days(daysParam) ==
    IF daysParam.present /\ daysParam.text # << >>
    THEN MathMin(MathMax(ParseInt(daysParam.text), Number(MIN_DAYS)), Number(MAX_DAYS))
    ELSE Number(DEFAULT_DAYS)

\* the offsets from UTC, in hours, of the time zone the process may run in
TzOffsets == {-8, 0, 1}

\* RangeError of Intl.DateTimeFormat.format for an invalid Date
ERR_INVALID_TIME == Err("Invalid time value")

\* what a gateway call (apiRequest) may throw: the failures of the token
\* resolution and the failures of the HTTP call
GatewayErrors ==
    { ERR_FAILED_TO_OBTAIN, ERR_LAUNCH } \cup { ApiError(s) : s \in { x \in Statuses : ~ResponseOk(x) } }

\* the menu responses of the endpoint's runs
RunMenus ==
    { << >>,
      <<MenuSection(<<MenuGroup(<<"S", "p", "a">>,
          <<MenuItem(501, <<"S", "a", "u", "n", "a">>, <<"3", "0", " ", "m", "i", "n">>, <<"$", "2", "5", ".", "0", "0">>),
            MenuItem(503, <<"M", "a", "s", "s", "a", "g", "e">>, <<"5", "0", " ", "m", "i", "n">>, <<"$", "9", "5", ".", "5", "0">>)>>)>>)>>,
      <<MenuSection(<<MenuGroup(<<"S", "p", "a">>,
          <<MenuItem(501, <<"S", "a", "u", "n", "a">>, <<"3", "0", " ", "m", "i", "n">>, <<"$", "2", "5", ".", "0", "0">>),
            MenuItem(505, <<"H", "o", "t", " ", "T", "u", "b">>, <<"1", " ", "h", "r">>, <<"$", "6", "0", ".", "0", "0">>)>>)>>)>>,
      <<MenuSection(<<MenuGroup(<<"S", "p", "a">>,
          <<MenuItem(501, <<"S", "t", "e", "a", "m">>, <<"3", "0", " ", "m", "i", "n">>, <<"$", "2", "5", ".", "0", "0">>),
            MenuItem(505, <<"S", "t", "e", "a", "m", " ">>, <<"4", "5", " ", "m", "i", "n">>, <<"$", "3", "5", ".", "0", "0">>)>>)>>)>> }

\* a JavaScript object as the sequence of its <<key, value>> pairs in
\* insertion order; obj[key] = value
ObjectSet(obj, key, value) ==
    IF \E k \in 1..Len(obj) : obj[k][1] = key
    THEN [k \in 1..Len(obj) |-> IF obj[k][1] = key THEN <<key, value>> ELSE obj[k]]
    ELSE Append(obj, <<key, value>>)

\* obj[key], for a key the object has
ObjectGet(obj, key) == obj[CHOOSE k \in 1..Len(obj) : obj[k][1] = key][2]

\* a gateway call as the run issued it: the endpoint, the service and the
\* day asked for, how it settled and the number of slots it gave
GatewayCall(endpoint, serviceId, date) ==
    [endpoint |-> endpoint, serviceId |-> serviceId, date |-> date,
     outcome |-> "pending", slots |-> 0]

\* the last call of the log settles
Settled(calls, outcome, slots) ==
    [calls EXCEPT ![Len(calls)] = [@ EXCEPT !.outcome = outcome, !.slots = slots]]

\* services.map((s) => ({ id, name, price, durationMinutes }))
ServicesInfo(services) ==
    [k \in 1..Len(services) |->
        [id |-> services[k].id, name |-> services[k].name,
         price |-> services[k].price,
         durationMinutes |-> services[k].durationMinutes]]

\* a catch block that answers with what was collected so far
CatchPartial(r, e) ==
    [r EXCEPT !.pc = "responded",
              !.response = [status |-> 200, error |-> NoErr,
                            availability |-> r.result,
                            services |-> ServicesInfo(r.services)]]

\* catch (error): NextResponse.json({ error: error.message }, { status: 500 })
Catch(r, e) ==
    [r EXCEPT !.pc = "responded",
              !.response = [status |-> 500, error |-> e,
                            availability |-> << >>, services |-> << >>]]

\* return NextResponse.json({ availability, services, ... })
Respond(r) ==
    [r EXCEPT !.pc = "responded",
              !.response = [status |-> 200, error |-> NoErr,
                            availability |-> r.result,
                            services |-> ServicesInfo(r.services)]]

\* a loop that opens an entry only for a name the result does not have yet
ForServiceKeeping(r, k) ==
    IF k > Len(r.services) THEN Respond(r)
    ELSE [r EXCEPT !.pc = "availabledates", !.s = k, !.availableDates = << >>, !.d = 0,
                   !.result = IF \E j \in 1..Len(r.result) : r.result[j][1] = r.services[k].name
                              THEN r.result
                              ELSE ObjectSet(r.result, r.services[k].name, << >>),
                   !.calls = Append(@, GatewayCall("availabledates", r.services[k].id, 0))]

\* getAllAvailability at the head of its loop over the services, for the
\* k-th service: result[serviceName] = {} and the call of getAvailableDates;
\* past the last service, return result
ForService(r, k) ==
    IF k > Len(r.services) THEN Respond(r)
    ELSE [r EXCEPT !.pc = "availabledates", !.s = k, !.availableDates = << >>, !.d = 0,
                   !.result = ObjectSet(r.result, r.services[k].name, << >>),
                   !.calls = Append(@, GatewayCall("availabledates", r.services[k].id, 0))]

\* the head of the loop over availableDates, for the j-th date: the call of
\* getTimeSlots(serviceId, new Date(dateStr + 'T00:00:00')), which asks for
\* the day formatDate gives; past the last date, the next service
ForDate(r, j) ==
    IF j > Len(r.availableDates) THEN ForService(r, r.s + 1)
    ELSE [r EXCEPT !.pc = "availability", !.d = j,
                   !.calls = Append(@, GatewayCall("availability", r.services[r.s].id,
                                       FormatDate(NewDate(r.availableDates[j], r.tz))))]

\* the result with the slots stored whether or not there are any
StoreAlways(result, serviceName, dateStr, slots) ==
    ObjectSet(result, serviceName,
              ObjectSet(ObjectGet(result, serviceName), dateStr, slots))

\* if (slots.length > 0) result[serviceName][dateStr] = slots
Store(result, serviceName, dateStr, slots) ==
    IF Len(slots) > 0
    THEN ObjectSet(result, serviceName,
                   ObjectSet(ObjectGet(result, serviceName), dateStr, slots))
    ELSE result

RouteInit ==
    /\ now = 0
    /\ cachedToken = NullTok
    /\ tokenExpiry = NullNum
    /\ envToken = NullTok
    /\ clearedSince = FALSE
    /\ task = [p \in Tasks |-> IdleTask]
    /\ run = IdleRun
    /\ fn = NoFn

\* GET, up to its first await: the day count, the date range (an invalid
\* Date makes the formatter throw, which the catch block answers), then
\* getTargetServices, getAllServices and apiRequest for the menu
GET ==
    /\ run.pc = "idle"
    /\ \E daysParam \in DaysParams, tz \in TzOffsets :
         LET r == [IdleRun EXCEPT !.tz = tz] IN
         run' = IF Days(daysParam).nan
                THEN Catch(r, ERR_INVALID_TIME)
                ELSE [r EXCEPT !.pc = "menu", !.calls = <<GatewayCall("menu", 0, 0)>>]
    /\ UNCHANGED <<now, cachedToken, tokenExpiry, envToken, clearedSince, task, fn>>

\* the menu call settles: getAllServices flattens the menu, getTargetServices
\* filters it, GET maps it and calls getAllAvailability, which runs up to its
\* first call
MenuSettles ==
    /\ run.pc = "menu"
    /\ \/ \E e \in GatewayErrors :
            run' = Catch([run EXCEPT !.calls = Settled(@, "error", 0)], e)
       \/ \E data \in RunMenus :
            run' = ForService([run EXCEPT !.services = GetTargetServices(GetAllServices(data)),
                                          !.calls = Settled(@, "ok", 0)], 1)
    /\ UNCHANGED <<now, cachedToken, tokenExpiry, envToken, clearedSince, task, fn>>

\* the available-dates call of the current service settles
AvailableDatesSettles ==
    LET serviceId == run.services[run.s].id IN
    /\ run.pc = "availabledates"
    /\ \/ \E e \in GatewayErrors :
            run' = Catch([run EXCEPT !.calls = Settled(@, "error", 0)], e)
       \/ \E data \in AvailableDatesBodies(serviceId) :
            run' = ForDate([run EXCEPT !.availableDates = GetAvailableDates(data, serviceId),
                                       !.calls = Settled(@, "ok", 0)], 1)
    /\ UNCHANGED <<now, cachedToken, tokenExpiry, envToken, clearedSince, task, fn>>

\* the slots call of the current date settles
AvailabilitySettles ==
    LET service == run.services[run.s] IN
    /\ run.pc = "availability"
    /\ \/ \E e \in GatewayErrors :
            run' = Catch([run EXCEPT !.calls = Settled(@, "error", 0)], e)
       \/ \E data \in AvailabilityBodies(service.id) :
            LET slots == GetTimeSlots(data, service.id) IN
            run' = ForDate([run EXCEPT !.result = Store(@, service.name,
                                                        run.availableDates[run.d], slots),
                                       !.calls = Settled(@, "ok", Len(slots))],
                           run.d + 1)
    /\ UNCHANGED <<now, cachedToken, tokenExpiry, envToken, clearedSince, task, fn>>

\* the client has the response
Reply ==
    /\ run.pc = "responded"
    /\ run' = IdleRun
    /\ UNCHANGED <<now, cachedToken, tokenExpiry, envToken, clearedSince, task, fn>>

RouteNext ==
    \/ GET
    \/ MenuSettles
    \/ AvailableDatesSettles
    \/ AvailabilitySettles
    \/ Reply

\* one request after another to the inbound endpoint
RouteSpec == RouteInit /\ [][RouteNext]_vars

(* ----------------------- calls of the pure functions ------------------ *)

\* a call of the function named name with the argument input
Call(name, input) == [name |-> name, input |-> input, output |-> << >>, done |-> FALSE]

FnInit ==
    /\ now = 0
    /\ cachedToken = NullTok
    /\ tokenExpiry = NullNum
    /\ envToken = NullTok
    /\ clearedSince = FALSE
    /\ task = [p \in Tasks |-> IdleTask]
    /\ run = IdleRun
    /\ fn \in { Call("parseDuration", x) : x \in DurationStrings }
         \cup { Call("getAllServices", x) : x \in MenuResponses }
         \cup { Call("getTargetServices", GetAllServices(x)) : x \in MenuResponses }
         \cup { Call("days", x) : x \in DaysParams }
         \cup { Call("price", x) : x \in PriceStrings }
         \cup { Call("getAvailableDates", x) : x \in AvailableDatesArguments }
         \cup { Call("getTimeSlots", x) : x \in TimeSlotsArguments }

\* the call returns ParseDuration of its argument
CallParseDuration ==
    /\ fn.name = "parseDuration" /\ ~fn.done
    /\ fn' = [fn EXCEPT !.output = ParseDuration(fn.input), !.done = TRUE]
    /\ UNCHANGED <<now, cachedToken, tokenExpiry, envToken, clearedSince, task, run>>

\* getAllServices returns the services of the menu response
CallGetAllServices ==
    /\ fn.name = "getAllServices" /\ ~fn.done
    /\ fn' = [fn EXCEPT !.output = GetAllServices(fn.input), !.done = TRUE]
    /\ UNCHANGED <<now, cachedToken, tokenExpiry, envToken, clearedSince, task, run>>

\* getTargetServices returns the filtered list
CallGetTargetServices ==
    /\ fn.name = "getTargetServices" /\ ~fn.done
    /\ fn' = [fn EXCEPT !.output = GetTargetServices(fn.input), !.done = TRUE]
    /\ UNCHANGED <<now, cachedToken, tokenExpiry, envToken, clearedSince, task, run>>

\* GET computes the day count from the days parameter
CallDays ==
    /\ fn.name = "days" /\ ~fn.done
    /\ fn' = [fn EXCEPT !.output = Days(fn.input), !.done = TRUE]
    /\ UNCHANGED <<now, cachedToken, tokenExpiry, envToken, clearedSince, task, run>>

\* getAllServices parses the display price of an item
CallPrice ==
    /\ fn.name = "price" /\ ~fn.done
    /\ fn' = [fn EXCEPT !.output = Price(fn.input), !.done = TRUE]
    /\ UNCHANGED <<now, cachedToken, tokenExpiry, envToken, clearedSince, task, run>>

\* getAvailableDates returns the dates of the response
CallGetAvailableDates ==
    /\ fn.name = "getAvailableDates" /\ ~fn.done
    /\ fn' = [fn EXCEPT !.output = GetAvailableDates(fn.input, RequestedServiceId),
                        !.done = TRUE]
    /\ UNCHANGED <<now, cachedToken, tokenExpiry, envToken, clearedSince, task, run>>

\* getTimeSlots returns the slots of the response
CallGetTimeSlots ==
    /\ fn.name = "getTimeSlots" /\ ~fn.done
    /\ fn' = [fn EXCEPT !.output = GetTimeSlots(fn.input, RequestedServiceId),
                        !.done = TRUE]
    /\ UNCHANGED <<now, cachedToken, tokenExpiry, envToken, clearedSince, task, run>>

FnNext ==
    \/ CallDays
    \/ CallPrice
    \/ CallGetAvailableDates
    \/ CallGetTimeSlots
    \/ CallParseDuration
    \/ CallGetAllServices
    \/ CallGetTargetServices

\* the pure functions of the catalog, each applied to one argument
FnSpec == FnInit /\ [][FnNext]_vars

(* ------------------------------ claims -------------------------------- *)

\* the cache holds a credential whose local expiry is still in the future
LiveCredential ==
    /\ cachedToken.src \in {"env", "web"}
    /\ Len(tokenExpiry) = 1
    /\ tokenExpiry[1] > now

\* task p starts a call of the service in this step
Starts(p) == task[p].pc = "idle" /\ task'[p].pc # "idle" /\ task'[p].kind = "api"

\* task p's engine (obtainTokenViaPlaywright) settles in this step
EngineSettles(p) ==
    task[p].kind = "api" /\ InEngine(task[p]) /\ ~InEngine(task'[p])

\* C1: a call made while the cache holds a live credential returns exactly
\* that credential, starts no acquisition and leaves cachedToken and
\* tokenExpiry as they were (so the environment token is not adopted).
C1_CacheHit ==
    [][\A p \in Tasks :
         (Starts(p) /\ LiveCredential) =>
            /\ task'[p].got = Returned(cachedToken)
            /\ task'[p].path = "hit"
            /\ task'[p].acquisitions = 0
            /\ ~InEngine(task'[p])
            /\ task'[p].browser = "none"
            /\ task'[p].logs = {}
            /\ cachedToken' = cachedToken
            /\ tokenExpiry' = tokenExpiry]_vars

\* a browser-acquired credential handed out again from the cache
C1_Witness ==
    \E p \in Tasks :
        /\ task[p].path = "hit"
        /\ task[p].pc = "fetch"
        /\ task[p].got.token.src = "web"
        /\ task[p].got.token = cachedToken

\* the age of the credential on task p's request when the request was sent
AgeAtSend(p) == (now - task[p].ticks) - task[p].req.authorization.tok.iss

\* C2 as stated: no request is sent with a credential, browser-acquired or
\* environment-supplied, older than the assumed upstream validity window.
C2_Original ==
    \A p \in Tasks :
        task[p].pc = "fetch" => AgeAtSend(p) <= UPSTREAM_VALID_MS

\* C2 as amended: no request is sent with a browser-acquired credential
\* older than the assumed upstream validity window.
C2_WebWithinWindow ==
    \A p \in Tasks :
        (task[p].pc = "fetch" /\ task[p].req.authorization.tok.src = "web") =>
            AgeAtSend(p) <= UPSTREAM_VALID_MS

\* a browser-acquired credential sent in the last hour the cache returns it
C2_Witness ==
    \E p \in Tasks :
        /\ task[p].pc = "fetch"
        /\ task[p].path = "hit"
        /\ task[p].req.authorization.tok.src = "web"
        /\ AgeAtSend(p) = TOKEN_CACHE_MS - 1

\* C3: on a cache miss with BOOKER_TOKEN set, the call returns the
\* environment token, caches it with an expiry one hour ahead and never
\* enters the browser acquisition.
C3_EnvPreferred ==
    [][\A p \in Tasks :
         (Starts(p) /\ ~LiveCredential /\ envToken.src = "env") =>
            /\ task'[p].got = Returned(envToken)
            /\ task'[p].path = "env"
            /\ cachedToken' = envToken
            /\ tokenExpiry' = Num(now + ENV_CACHE_MS)
            /\ task'[p].acquisitions = 0
            /\ ~InEngine(task'[p])
            /\ task'[p].browser = "none"]_vars

\* the environment token adopted again after its local expiry has passed
C3_Witness ==
    \E p \in Tasks :
        /\ task[p].path = "env"
        /\ task[p].pc = "fetch"
        /\ task[p].got.token = EnvTok
        /\ now >= ENV_CACHE_MS
        /\ tokenExpiry = Num(now + ENV_CACHE_MS)

\* the engine's result is a failure: it threw, or it returned null
EngineFails(t) ==
    \/ t.pc \in {"import", "launch"}
    \/ t.pending # NoErr
    \/ ~Truthy(t.accessToken)

\* C4: with no live cached credential and no environment token a call
\* enters the engine, once; when the engine fails the call fails in the
\* same step, with the exception the engine threw, or with the fixed
\* "Failed to obtain access token" error for a null result, and the engine
\* is not entered again within the call.
C4_OneAcquisition ==
    /\ [][\A p \in Tasks :
            (Starts(p) /\ ~LiveCredential /\ ~Truthy(envToken)) =>
               /\ task'[p].pc = "import"
               /\ task'[p].path = "browser"
               /\ task'[p].acquisitions = 1]_vars
    /\ [](\A p \in Tasks : task[p].kind = "api" => task[p].acquisitions <= 1)
    /\ [][\A p \in Tasks :
            (EngineSettles(p) /\ EngineFails(task[p])) =>
               /\ task'[p].pc = "done"
               /\ task'[p].acquisitions = 1
               /\ task'[p].got.status = "error"
               /\ task'[p].out = task'[p].got
               /\ task[p].pending # NoErr => task'[p].got = Thrown(task[p].pending)
               /\ (task[p].pc = "close" /\ task[p].pending = NoErr) =>
                     task'[p].got = Thrown(ERR_FAILED_TO_OBTAIN)
               /\ task[p].pc = "import" => task'[p].got = Thrown(ERR_FAILED_TO_OBTAIN)
               /\ task[p].pc = "launch" => task'[p].got = Thrown(ERR_LAUNCH)]_vars

\* a call that failed after its one acquisition ran the whole polling budget
C4_Witness ==
    \E p \in Tasks :
        /\ task[p].kind = "api"
        /\ task[p].pc = "done"
        /\ task[p].acquisitions = 1
        /\ task[p].browser = "closed"
        /\ task[p].logs = {}
        /\ task[p].got = Thrown(ERR_FAILED_TO_OBTAIN)

C6_ConservativeExpiry ==
    /\ [][\A p \in Tasks :
            (EngineSettles(p) /\ ~EngineFails(task[p])) =>
               /\ cachedToken' = task[p].accessToken
               /\ tokenExpiry' = Num(now + TOKEN_CACHE_MS)
               /\ tokenExpiry'[1] - now < UPSTREAM_VALID_MS
               /\ task'[p].got = Returned(task[p].accessToken)]_vars
    /\ []((LiveCredential /\ cachedToken.src = "web") =>
            now - cachedToken.iss < UPSTREAM_VALID_MS)

\* a browser-acquired credential still cached at its local expiry, which the
\* cache no longer returns
C6_Witness ==
    /\ cachedToken.src = "web"
    /\ tokenExpiry = Num(now)
    /\ now - cachedToken.iss = TOKEN_CACHE_MS
    /\ ~CacheValid

\* page.goto of task p settles with a failure in this step
NavigationFails(p) ==
    /\ task[p].pc = "goto"
    /\ \/ LOG_NAV_WARNING \in task'[p].logs
       \/ task'[p].pending = ERR_GOTO

\* C7 as stated: after a failed navigation the engine still polls for the
\* token.
C7_Original ==
    [][\A p \in Tasks : NavigationFails(p) => task'[p].pc = "wait"]_vars

\* C7 as amended.  In the token service a failed navigation is logged as a
\* warning and is not thrown, but it ends the acquisition without any poll:
\* the browser is closed next and the engine returns the token captured by
\* then, if any, else null.  In the stand-alone script the navigation
\* failure is not caught: no poll, the browser is closed and the failure is
\* the script's result.
C7_NavFailureSkipsPolling ==
    /\ [][\A p \in Tasks :
            NavigationFails(p) =>
               /\ task'[p].pc = "close"
               /\ task'[p].browser = "open"
               /\ task'[p].accessToken = task[p].accessToken
               /\ (task[p].kind = "api") =>
                     (LOG_NAV_WARNING \in task'[p].logs /\ task'[p].pending = NoErr)
               /\ (task[p].kind = "script") =>
                     (LOG_NAV_WARNING \notin task'[p].logs /\ task'[p].pending = ERR_GOTO)]_vars
    /\ [](\A p \in Tasks :
            (LOG_NAV_WARNING \in task[p].logs \/ task[p].pending = ERR_GOTO) =>
               task[p].pc \in {"close", "fetch", "done"})
    /\ [][\A p \in Tasks :
            (task[p].pc = "close" /\ task'[p].pc # "close") =>
               /\ task'[p].browser = "closed"
               /\ LOG_NAV_WARNING \in task[p].logs =>
                     task'[p].got = IF Truthy(task[p].accessToken)
                                    THEN Returned(task[p].accessToken)
                                    ELSE Thrown(ERR_FAILED_TO_OBTAIN)
               /\ task[p].pending = ERR_GOTO => task'[p].out = Thrown(ERR_GOTO)]_vars

\* a token seen during a navigation that then failed, returned as a success
C7_Witness ==
    \E p \in Tasks :
        /\ task[p].kind = "api"
        /\ LOG_NAV_WARNING \in task[p].logs
        /\ task[p].pc = "fetch"
        /\ task[p].got.token.src = "web"
        /\ task[p].browser = "closed"

\* C8: while a launched browser is open the acquisition is inside the try
\* block whose finally closes it; no acquisition, of the service or of the
\* script, is left with its browser open, whether it ended with a token,
\* with the polling budget spent, with a failed navigation or with an
\* exception from newContext or newPage.
C8_BrowserClosedOnExit ==
    \A p \in Tasks :
        /\ task[p].browser = "open" =>
              task[p].pc \in {"newContext", "newPage", "goto", "wait", "close"}
        /\ (task[p].pc \in {"fetch", "done"} /\ task[p].acquisitions > 0) =>
              /\ task[p].browser \in {"closed", "none"}
              /\ task[p].browser = "none" =>
                    \/ task[p].out = Thrown(ERR_LAUNCH)
                    \/ LOG_NOT_AVAILABLE \in task[p].logs

\* acquisitions of both tasks have ended on an exception path, one of the
\* service's and one of the script's, and both browsers are closed
C8_Witness ==
    \E p, q \in Tasks :
        /\ task[p].kind = "api" /\ task[p].pc = "done"
        /\ task[p].out = Thrown(ERR_NEW_PAGE) /\ task[p].browser = "closed"
        /\ task[q].kind = "script" /\ task[q].pc = "done"
        /\ task[q].out = Thrown(ERR_GOTO) /\ task[q].browser = "closed"

\* task p's call failed because the browser runtime is not available
RuntimeUnavailable(p) ==
    /\ task[p].kind = "api" /\ task[p].pc = "done"
    /\ LOG_NOT_AVAILABLE \in task[p].logs

\* task p's call failed because the browser ran and no token was seen
\* within the polling budget
NoTokenObserved(p) ==
    /\ task[p].kind = "api" /\ task[p].pc = "done"
    /\ task[p].browser = "closed" /\ task[p].pending = NoErr
    /\ task[p].logs = {}
    /\ task[p].got.status = "error"

\* C9 as stated: the two failures never reach the caller of getAccessToken
\* as the same outcome.
C9_Distinguishable ==
    \A p, q \in Tasks :
        (RuntimeUnavailable(p) /\ NoTokenObserved(q)) => task[p].got # task[q].got

\* the access_token values of a query, in order
RECURSIVE ValuesOf(_, _)
ValuesOf(q, k) ==
    IF q = << >> THEN << >>
    ELSE IF Head(q)[1] = k THEN <<Head(q)[2]>> \o ValuesOf(Tail(q), k)
    ELSE ValuesOf(Tail(q), k)

\* C10: every request handed to fetch carries the token getAccessToken
\* returned, once as the Authorization Bearer header and once, and only
\* once, as the access_token query parameter, together with the
\* subscription key, also when the caller's parameters name access_token.
C10_TokenAttachedTwice ==
    \A p \in Tasks :
        task[p].pc = "fetch" =>
            /\ task[p].got.status = "ok"
            /\ Truthy(task[p].got.token)
            /\ task[p].req.authorization = [scheme |-> "Bearer", tok |-> task[p].got.token]
            /\ ValuesOf(task[p].req.query, "access_token") = <<TokStr(task[p].got.token)>>
            /\ task[p].req.subscriptionKey = SUBSCRIPTION_KEY

\* a request whose caller passed an access_token parameter of its own: the
\* parameter keeps its first place in the query and carries the token
C10_Witness ==
    \E p \in Tasks :
        /\ task[p].pc = "fetch"
        /\ Len(task[p].req.query) = 2
        /\ task[p].req.query[1] = <<"access_token", TokStr(task[p].got.token)>>
        /\ task[p].req.query[2][1] = "serviceId"

\* C11: a request whose response has a non-success status ends, in the step
\* in which fetch settles, in a failure carrying the status code and the
\* status text; the call makes no second fetch (from the fetch it goes only
\* to its end, and from its end only back to the caller), resolves no token
\* again, and leaves cachedToken and tokenExpiry as they were.
C11_FailureSurfacedOnce ==
    /\ [][\A p \in Tasks :
            (task[p].pc = "fetch" /\ task'[p].pc # "fetch") =>
               /\ task'[p].pc = "done"
               /\ task'[p].acquisitions = 0
               /\ cachedToken' = cachedToken
               /\ tokenExpiry' = tokenExpiry
               /\ clearedSince' = clearedSince
               /\ \/ task'[p].out = Json
                  \/ \E s \in Statuses :
                       /\ ~(s >= 200 /\ s <= 299)
                       /\ task'[p].out.status = "error"
                       /\ task'[p].out.err.msg = "API request failed:"
                       /\ task'[p].out.err.status = s
                       /\ task'[p].out.err.text = StatusText(s)]_vars
    /\ [][\A p \in Tasks :
            task[p].pc = "done" => task'[p].pc \in {"done", "idle"}]_vars

\* a call rejected with 401 has ended while the cache still holds the live
\* browser-acquired credential it was sent with
C11_Witness ==
    \E p \in Tasks :
        /\ task[p].pc = "done"
        /\ task[p].out = Thrown(ApiError(401))
        /\ LiveCredential
        /\ cachedToken.src = "web"

\* the endpoint has answered 500 with the failure of an upstream rejection
SurfacedRejection ==
    /\ run.pc = "responded"
    /\ run.response.status = 500
    /\ run.response.error.msg = "API request failed:"

\* C12 as stated: a rejection by the upstream is surfaced by the endpoint
\* only after the rejected call was made a second time (the retry, after the
\* token cache was invalidated).
C12_RetryBeforeSurfacing ==
    SurfacedRejection =>
        LET n == Len(run.calls) IN
        /\ n >= 2
        /\ run.calls[n].outcome = "error"
        /\ run.calls[n - 1].outcome = "error"
        /\ run.calls[n].endpoint = run.calls[n - 1].endpoint
        /\ run.calls[n].serviceId = run.calls[n - 1].serviceId
        /\ run.calls[n].date = run.calls[n - 1].date

\* obj has the key
HasKey(obj, key) == \E k \in 1..Len(obj) : obj[k][1] = key

\* no date key of the index has an empty slot list
NoEmptyDate(index) ==
    \A k \in 1..Len(index) :
        \A j \in 1..Len(index[k][2]) : Len(index[k][2][j][2]) > 0

\* the slots call of the run settles in this step with no slot
NoSlots ==
    /\ run.pc = "availability"
    /\ run'.calls[Len(run.calls)].outcome = "ok"
    /\ run'.calls[Len(run.calls)].slots = 0

\* C13: neither the index getAllAvailability is building nor the one the
\* endpoint returns has a date key with an empty slot list, and a reported
\* date whose slots call gives no slot is not a key of its service's entry.
C13_NoEmptyDateKey ==
    /\ [](NoEmptyDate(run.result) /\ NoEmptyDate(run.response.availability))
    /\ [][NoSlots =>
            ~HasKey(ObjectGet(run'.result, run.services[run.s].name),
                    run.availableDates[run.d])]_vars

\* an index was returned that has a date with slots, after a slots call of
\* the run had given no slot for a date that was reported
C13_Witness ==
    /\ run.pc = "responded"
    /\ run.response.status = 200
    /\ \E k \in 1..Len(run.calls) :
         /\ run.calls[k].endpoint = "availability"
         /\ run.calls[k].outcome = "ok"
         /\ run.calls[k].slots = 0
    /\ \E k \in 1..Len(run.response.availability) :
         Len(run.response.availability[k][2]) > 0

\* a gateway call of the run fails in this step
CallFails ==
    /\ run.pc \in {"menu", "availabledates", "availability"}
    /\ run'.calls[Len(run.calls)].outcome = "error"

\* C14: when a gateway call fails, whichever it is, the endpoint answers in
\* the same step with status 500, the error that call threw and no index;
\* an answer with an index has status 200 and is given only when every call
\* of the run succeeded: the menu call and, for every service of the list,
\* its available-dates call and all its slots calls.
C14_AllOrNothing ==
    /\ [][CallFails =>
            /\ run'.pc = "responded"
            /\ run'.response.status = 500
            /\ run'.response.error \in GatewayErrors
            /\ run'.response.availability = << >>
            /\ run'.response.services = << >>]_vars
    /\ []((run.pc = "responded" /\ run.response.status = 500) =>
            /\ run.response.availability = << >>
            /\ run.response.error # NoErr)
    /\ []((run.pc = "responded" /\ run.response.status # 500) =>
            /\ run.response.status = 200
            /\ run.response.error = NoErr
            /\ run.response.availability = run.result
            /\ \A k \in 1..Len(run.calls) : run.calls[k].outcome = "ok"
            /\ run.calls[1].endpoint = "menu"
            /\ \A k \in 1..Len(run.services) :
                 /\ HasKey(run.response.availability, run.services[k].name)
                 /\ \E j \in 1..Len(run.calls) :
                      /\ run.calls[j].endpoint = "availabledates"
                      /\ run.calls[j].serviceId = run.services[k].id)

\* the last slots call of a run failed after slots of an earlier date had
\* been collected: the answer is the 500 and what was collected is dropped
C14_Witness ==
    /\ run.pc = "responded"
    /\ run.response.status = 500
    /\ Len(run.calls) > 0
    /\ run.calls[Len(run.calls)].endpoint = "availability"
    /\ run.calls[Len(run.calls)].outcome = "error"
    /\ \E k \in 1..Len(run.result) : Len(run.result[k][2]) > 0
    /\ run.response.availability = << >>

\* C15 as stated: whatever the days parameter is, the day count is an
\* integer from 1 to 60, and 30 when the parameter is absent.
C15_DaysInRange ==
    (fn.name = "days" /\ fn.done) =>
        /\ ~fn.output.nan
        /\ fn.output.n >= MIN_DAYS
        /\ fn.output.n <= MAX_DAYS
        /\ fn.input = Absent => fn.output = Number(DEFAULT_DAYS)

\* the calls the run has made since the available-dates call of the service
\* it is at
SinceAvailableDates ==
    LET k == CHOOSE k \in 1..Len(run.calls) :
                 /\ run.calls[k].endpoint = "availabledates"
                 /\ \A j \in (k + 1)..Len(run.calls) : run.calls[j].endpoint # "availabledates"
    IN SubSeq(run.calls, k + 1, Len(run.calls))

\* C16 as stated: after the available-dates call of a service the run makes
\* slots calls only, one for each date that call reported, in order, each
\* asking for the service and for that date; so a service whose dates are
\* done has cost one call more than it has dates.
C16_OneSlotQueryPerReportedDate ==
    run.pc \in {"availabledates", "availability"} =>
        LET slotCalls == SinceAvailableDates IN
        /\ Len(slotCalls) = run.d
        /\ Len(slotCalls) <= Len(run.availableDates)
        /\ \A j \in 1..Len(slotCalls) :
             /\ slotCalls[j].endpoint = "availability"
             /\ slotCalls[j].serviceId = run.services[run.s].id
             /\ slotCalls[j].date = run.availableDates[j]

\* C17: a call that starts with no live cached credential and no
\* environment token while other callers' acquisitions are in flight starts
\* an acquisition of its own and leaves theirs as they are; nothing bounds
\* the acquisitions in flight but the number of callers.
C17_NoDeduplication ==
    [][\A p \in Tasks :
         (/\ Starts(p) /\ ~LiveCredential /\ ~Truthy(envToken)
          /\ \E q \in Tasks \ {p} : InEngine(task[q])) =>
            /\ task'[p].pc = "import"
            /\ task'[p].acquisitions = 1
            /\ \A q \in Tasks \ {p} : task'[q] = task[q]]_vars

\* every caller has a browser of its own open, each with a token captured,
\* and the cache is still empty
C17_Witness ==
    /\ cachedToken = NullTok
    /\ ~Truthy(envToken)
    /\ \A p \in Tasks :
         /\ task[p].kind = "api"
         /\ task[p].acquisitions = 1
         /\ task[p].browser = "open"
         /\ Truthy(task[p].accessToken)

\* C18 as stated: whatever the menu response, no two services of the list
\* getAllServices returns have the same id, and none is without an id.
C18_UniqueServiceIds ==
    (fn.name = "getAllServices" /\ fn.done) =>
        /\ \A j, k \in 1..Len(fn.output) :
             j # k => fn.output[j].id # fn.output[k].id
        /\ \A k \in 1..Len(fn.output) : fn.output[k].id # 0

\* C19: parseDuration gives 60 N for "<N> hr", M for "<M> min", 60 N + M for
\* "<N> hr <M> min", and 0 for a string with neither component.
C19_ParseDuration ==
    (fn.name = "parseDuration" /\ fn.done) =>
        /\ \A n \in 0..MaxHours : fn.input = HrForm(n) => fn.output = 60 * n
        /\ \A m \in 0..MaxMinutes : fn.input = MinForm(m) => fn.output = m
        /\ \A n \in 0..MaxHours, m \in 0..MaxMinutes :
             fn.input = HrMinForm(n, m) => fn.output = 60 * n + m
        /\ fn.input \in NoComponentStrings => fn.output = 0

\* '1 hr 10 min' has been parsed to 70
C19_Witness ==
    /\ fn.name = "parseDuration" /\ fn.done
    /\ fn.input = <<"1", " ", "h", "r", " ", "1", "0", " ", "m", "i", "n">>
    /\ fn.output = 70

\* the two characters are the same letter in either case, or the same
\* character
SameIgnoringCase(a, b) ==
    \/ a = b
    \/ \E k \in 1..26 : {a, b} = {UpperCase[k], LowerCase[k]}

\* the name has the keyword in it somewhere, the case of letters ignored
ContainsKeyword(name, kw) ==
    \E i \in 1..Len(name) :
        /\ i + Len(kw) - 1 <= Len(name)
        /\ \A c \in 1..Len(kw) : SameIgnoringCase(name[i + c - 1], kw[c])

\* the service's name has one of the four keywords in it
Matching(s) ==
    \E kw \in {<<"s", "a", "u", "n", "a">>, <<"s", "t", "e", "a", "m">>, <<"h", "o", "t", " ", "t", "u", "b">>, <<"c", "o", "m", "b", "i", "n", "a", "t", "i", "o", "n">>} :
        ContainsKeyword(s.name, kw)

\* C20: the list getTargetServices returns is the catalog with the services
\* whose name has none of the keywords left out: as many entries as there
\* are matching services, and the j-th entry is the j-th matching service
\* of the catalog.
C20_TargetFilter ==
    (fn.name = "getTargetServices" /\ fn.done) =>
        LET matching == { k \in 1..Len(fn.input) : Matching(fn.input[k]) } IN
        /\ Len(fn.output) = Cardinality(matching)
        /\ \A j \in 1..Len(fn.output) :
             \E k \in matching :
                /\ Cardinality({ i \in matching : i <= k }) = j
                /\ fn.output[j] = fn.input[k]

\* of a catalog of two services the one named in upper case was kept and
\* the one before it, with no keyword in its name, left out
C20_Witness ==
    /\ fn.name = "getTargetServices" /\ fn.done
    /\ Len(fn.input) = 2
    /\ fn.input[1].name = <<"M", "a", "s", "s", "a", "g", "e">>
    /\ fn.output = <<fn.input[2]>>
    /\ fn.output[1].name = <<"S", "T", "E", "A", "M", " ", "R", "o", "o", "m">>

\* C21: a display price of the form "$X,XXX.YY" is parsed, with the currency
\* symbol and the thousands separator removed, to exactly that amount: in
\* whole cents, 100 (1000 X + XXX) + YY.
C21_PriceExact ==
    (fn.name = "price" /\ fn.done) =>
        \A x \in 1..MaxThousands, h \in BelowThousand, c \in CentValues :
            fn.input = PriceForm(x, h, c)
                => fn.output = Number(100 * (1000 * x + h) + c)

\* "$1,007.05" has been parsed to 1007.05
C21_Witness ==
    /\ fn.name = "price" /\ fn.done
    /\ fn.input = <<"$", "1", ",", "0", "0", "7", ".", "0", "5">>
    /\ fn.output = Number(100705)


\* C22: within one acquisition session the first token captured wins: once
\* accessToken holds a token, no later request of the page changes it, and
\* the session that ends without an exception returns that token.
C22_FirstCaptureWins ==
    [][\A p \in Tasks :
         (InEngine(task[p]) /\ Truthy(task[p].accessToken)) =>
            /\ InEngine(task'[p]) => task'[p].accessToken = task[p].accessToken
            /\ (~InEngine(task'[p]) /\ task[p].pending = NoErr) =>
                 IF task[p].kind = "script"
                 THEN task'[p].out = Returned(task[p].accessToken)
                 ELSE task'[p].got = Returned(task[p].accessToken)]_vars

\* a session holds the first token of the hour and still observes the page,
\* which may yet send a request carrying another token
C22_Witness ==
    \E p \in Tasks :
        /\ task[p].pc = "wait" /\ task[p].observing /\ task[p].browser = "open"
        /\ task[p].accessToken = WebTok(now, 1)
        /\ \E url \in RequestUrls :
             Truthy(MatchToken(url)) /\ MatchToken(url) # task[p].accessToken

\* the step of task p is the end of one poll: the loop goes round or ends
PollStep(p) ==
    /\ task[p].pc = "wait"
    /\ task'[p].pc # "wait" \/ task'[p].i # task[p].i

\* the polls a session may make
Attempts(t) == IF t.kind = "script" THEN 20 ELSE 10

\* C23: after the navigation the engine polls at most 10 times (20 in the
\* stand-alone script): a poll that finds a token captured ends the loop,
\* a poll that finds none is followed by the next one unless it was the last,
\* and every session that entered the engine leaves it, with a result or an
\* exception.
C23_BoundedPolling ==
    /\ [](\A p \in Tasks : task[p].pc = "wait" => task[p].i < Attempts(task[p]))
    /\ [][\A p \in Tasks :
            PollStep(p) =>
               IF Truthy(task[p].accessToken) \/ task[p].i + 1 = Attempts(task[p])
               THEN task'[p].pc = "close"
               ELSE task'[p].pc = "wait" /\ task'[p].i = task[p].i + 1]_vars
    /\ \A p \in Tasks :
         InEngine(task[p]) ~> (task[p].pc \in {"fetch", "done"})

\* the service's engine is at its tenth poll with no token captured
C23_Witness ==
    \E p \in Tasks :
        /\ task[p].kind = "api" /\ task[p].pc = "wait"
        /\ task[p].i = 9 /\ ~Truthy(task[p].accessToken)

\* the elements of a sequence
Range(q) == { q[k] : k \in 1..Len(q) }

\* the calendar days of the timestamps a response lists under a service
\* with the given id, in any location and category
DaysListed(data, serviceId) ==
    IF ~data.isArray THEN {}
    ELSE UNION { UNION { UNION { { stamp.date : stamp \in Range(service.availability) } :
                                   service \in { x \in Range(category.services) :
                                                   x.serviceId = serviceId } } :
                           category \in Range(location.serviceCategories) } :
                   location \in Range(data.locations) }

\* C24: getAvailableDates returns exactly the calendar days of the
\* timestamps listed under services with the requested id, in whatever
\* location or category they stand, each day once.
C24_AvailableDates ==
    (fn.name = "getAvailableDates" /\ fn.done) =>
        /\ Range(fn.output) = DaysListed(fn.input, RequestedServiceId)
        /\ \A j, k \in 1..Len(fn.output) : j # k => fn.output[j] # fn.output[k]

\* day 1 is listed under two locations at different hours, and under one of
\* them with day 2: the dates returned are day 1 and day 2
C24_Witness ==
    /\ fn.name = "getAvailableDates" /\ fn.done
    /\ fn.input = Body(<<BookerLocation(<<BookerCategory(<<BookerService(
                             RequestedServiceId, <<Timestamp(2, 0), Timestamp(1, 8)>>)>>)>>),
                         BookerLocation(<< >>),
                         BookerLocation(<<BookerCategory(<<BookerService(
                             RequestedServiceId, <<Timestamp(1, 0)>>)>>)>>)>>)
    /\ fn.output = <<1, 2>>

\* the slots a response lists under services with the given id, location
\* by location, category by category
RECURSIVE SlotsListed(_, _)
SlotsListed(services, serviceId) ==
    IF services = << >> THEN << >>
    ELSE (IF Head(services).serviceId = serviceId
          THEN Head(services).availability ELSE << >>)
         \o SlotsListed(Tail(services), serviceId)

\* the services of a response, all locations and categories in order
RECURSIVE Concat(_)
Concat(lists) == IF lists = << >> THEN << >> ELSE Head(lists) \o Concat(Tail(lists))

ServicesListed(data) ==
    IF ~data.isArray THEN << >>
    ELSE Concat([l \in 1..Len(data.locations) |->
                   Concat([c \in 1..Len(data.locations[l].serviceCategories) |->
                             data.locations[l].serviceCategories[c].services])])

\* C25: getTimeSlots returns one slot per upstream slot of the requested
\* service, in order; each carries at most one staff member, the one listed
\* first upstream, and null for both staff fields when none is listed.
C25_FirstStaffOnly ==
    (fn.name = "getTimeSlots" /\ fn.done) =>
        LET upstream == SlotsListed(ServicesListed(fn.input), RequestedServiceId) IN
        /\ Len(fn.output) = Len(upstream)
        /\ \A k \in 1..Len(fn.output) :
             /\ DOMAIN fn.output[k] = {"startTime", "endTime", "employeeId", "employeeName"}
             /\ IF Len(upstream[k].employees) = 0
                THEN fn.output[k].employeeId = 0 /\ fn.output[k].employeeName = ""
                ELSE /\ fn.output[k].employeeId = upstream[k].employees[1].employeeId
                     /\ fn.output[k].employeeName = upstream[k].employees[1].employeeName

\* a slot with two staff members and a slot with none have been returned
\* as two slots, the first with the first member, the second with null
C25_Witness ==
    /\ fn.name = "getTimeSlots" /\ fn.done
    /\ Len(fn.output) = 2
    /\ \E l \in 1..Len(fn.input.locations) :
         \E c \in 1..Len(fn.input.locations[l].serviceCategories) :
           \E s \in 1..Len(fn.input.locations[l].serviceCategories[c].services) :
             LET service == fn.input.locations[l].serviceCategories[c].services[s] IN
             /\ service.serviceId = RequestedServiceId
             /\ Len(service.availability) = 2
             /\ Len(service.availability[1].employees) = 2
             /\ Len(service.availability[2].employees) = 0
    /\ fn.output[1].employeeId = 7 /\ fn.output[1].employeeName = "Room 1"
    /\ fn.output[2].employeeId = 0 /\ fn.output[2].employeeName = ""

\* C26: cachedToken and tokenExpiry are both null or both set, the token
\* never being the empty string, and every write of the pair stores a
\* credential together with the expiry computed for it at that moment: an
\* hour for the environment token, TOKEN_CACHE_MS for a captured one.
C26_CachePair ==
    /\ []((cachedToken = NullTok) <=> (tokenExpiry = NullNum))
    /\ [](cachedToken = NullTok \/ Truthy(cachedToken))
    /\ [][(cachedToken' # cachedToken \/ tokenExpiry' # tokenExpiry) =>
            \/ cachedToken' = NullTok /\ tokenExpiry' = NullNum
            \/ /\ cachedToken' = envToken /\ cachedToken'.src = "env"
               /\ tokenExpiry' = Num(now + ENV_CACHE_MS)
            \/ /\ cachedToken'.src = "web"
               /\ tokenExpiry' = Num(now + TOKEN_CACHE_MS)]_vars

\* the cache holds a credential captured after the first hour with the
\* expiry computed for it: an earlier pair, if any, was replaced as a whole
C26_Witness ==
    /\ cachedToken.src = "web" /\ cachedToken.iss > 0
    /\ tokenExpiry = Num(cachedToken.iss + TOKEN_CACHE_MS)

\* the step is one of task p's call: something other than the histories the
\* clock and clearTokenCache leave in the task changes
StepOf(p) ==
    [task'[p] EXCEPT !.ticks = 0, !.cleared = FALSE]
        # [task[p] EXCEPT !.ticks = 0, !.cleared = FALSE]

\* C27: a call of getAccessToken that fails writes nothing to the cache:
\* no step of a call inside the engine, other than the successful end of
\* the acquisition, changes cachedToken or tokenExpiry, and neither does the
\* step in which the call fails; the call that follows resolves from the
\* cache as it then is.
C27_FailureLeavesCache ==
    /\ [][\A p \in Tasks :
            (/\ task[p].kind = "api" /\ InEngine(task[p])
             /\ StepOf(p)
             /\ ~(EngineSettles(p) /\ ~EngineFails(task[p]))) =>
               (cachedToken' = cachedToken /\ tokenExpiry' = tokenExpiry)]_vars
    /\ [][\A p \in Tasks :
            (task[p].kind = "api" /\ task[p].got = Pending
             /\ task'[p].got.status = "error") =>
               (cachedToken' = cachedToken /\ tokenExpiry' = tokenExpiry)]_vars
    /\ [][\A p \in Tasks :
            Starts(p) =>
               task'[p].path = IF LiveCredential THEN "hit"
                               ELSE IF Truthy(envToken) THEN "env" ELSE "browser"]_vars

\* a call has failed for want of a token while the cache holds a captured
\* credential past its expiry: the entry is still there, expired
C27_Witness ==
    \E p \in Tasks :
        /\ task[p].pc = "done" /\ task[p].got = Thrown(ERR_FAILED_TO_OBTAIN)
        /\ cachedToken.src = "web"
        /\ Len(tokenExpiry) = 1 /\ tokenExpiry[1] <= now

\* C28: an acquisition that was in flight when clearTokenCache ran does not
\* repopulate the cache: when it ends while nothing has been stored since
\* the clear, the cache stays empty.
C28_ClearedStaysEmpty ==
    [][\A p \in Tasks :
         (EngineSettles(p) /\ task[p].cleared /\ clearedSince) =>
            (cachedToken' = NullTok /\ tokenExpiry' = NullNum)]_vars

\* the position of the last service with the given display name
LastNamed(services, name) ==
    CHOOSE k \in 1..Len(services) :
        /\ services[k].name = name
        /\ \A j \in (k + 1)..Len(services) : services[j].name # name

\* is the call a slots query for the service that gave slots
GaveSlots(call, serviceId) ==
    call.endpoint = "availability" /\ call.serviceId = serviceId /\ call.slots > 0

\* the slots queries of the log for the service that gave slots, in order
RECURSIVE SlotCalls(_, _)
SlotCalls(calls, serviceId) ==
    IF calls = << >> THEN << >>
    ELSE (IF GaveSlots(Head(calls), serviceId) THEN <<Head(calls)>> ELSE << >>)
         \o SlotCalls(Tail(calls), serviceId)

\* C29: the availability index of a successful response has exactly one key
\* per distinct display name of the services queried, also for a service
\* with no date; when two services share a name the entry holds what the
\* later one collected and nothing of the earlier one.
C29_OneKeyPerName ==
    (run.pc = "responded" /\ run.response.status = 200) =>
        LET index == run.response.availability IN
        /\ \A j, k \in 1..Len(index) : j # k => index[j][1] # index[k][1]
        /\ { index[k][1] : k \in 1..Len(index) }
             = { run.services[k].name : k \in 1..Len(run.services) }
        /\ \A k \in 1..Len(index) :
             LET service == run.services[LastNamed(run.services, index[k][1])]
                 stored == SlotCalls(run.calls, service.id)
             IN /\ Len(index[k][2]) = Len(stored)
                /\ \A j \in 1..Len(stored) : Len(index[k][2][j][2]) = stored[j].slots

\* two services named "Steam": the first had a date with slots, the second
\* none, and the one entry of the response is empty
C29_Witness ==
    /\ run.pc = "responded" /\ run.response.status = 200
    /\ Len(run.services) = 2
    /\ run.services[1].name = run.services[2].name
    /\ SlotCalls(run.calls, run.services[1].id) # << >>
    /\ SlotCalls(run.calls, run.services[2].id) = << >>
    /\ run.response.availability = << <<run.services[1].name, << >> >> >>

\* the available-dates queries of the log, in order
RECURSIVE DatesCalls(_)
DatesCalls(calls) ==
    IF calls = << >> THEN << >>
    ELSE (IF Head(calls).endpoint = "availabledates" THEN <<Head(calls)>> ELSE << >>)
         \o DatesCalls(Tail(calls))

\* C30: the gateway calls of one aggregation run are issued one after the
\* other: a call is issued only when every earlier one has settled, the menu
\* first, then service by service in list order the available-dates query
\* of the service followed by its slot queries in ascending date order.
C30_Sequential ==
    /\ \A k \in 1..(Len(run.calls) - 1) : run.calls[k].outcome = "ok"
    /\ \A k \in 1..Len(run.calls) : (run.calls[k].endpoint = "menu") <=> (k = 1)
    /\ LET queries == DatesCalls(run.calls) IN
       /\ Len(queries) <= Len(run.services)
       /\ \A j \in 1..Len(queries) : queries[j].serviceId = run.services[j].id
    /\ \A k \in 2..Len(run.calls) :
         run.calls[k].endpoint = "availability" =>
            /\ run.calls[k - 1].endpoint \in {"availabledates", "availability"}
            /\ run.calls[k - 1].serviceId = run.calls[k].serviceId
            /\ run.calls[k - 1].endpoint = "availability" =>
                 run.calls[k - 1].date < run.calls[k].date

\* the slot query of the second service is in flight after the menu, the
\* first service's dates query and its two slot queries, earlier day first
C30_Witness ==
    /\ Len(run.calls) = 6 /\ Len(run.services) = 2
    /\ run.calls[2].endpoint = "availabledates"
    /\ run.calls[3].endpoint = "availability" /\ run.calls[4].endpoint = "availability"
    /\ run.calls[3].date < run.calls[4].date
    /\ run.calls[5].endpoint = "availabledates"
    /\ run.calls[5].serviceId = run.services[2].id
    /\ run.calls[6].endpoint = "availability" /\ run.calls[6].outcome = "pending"

=============================================================================
